---- MODULE Spec2Model ----
(***************************************************************************)
(* tokenator: token-usage accounting around LLM provider clients.          *)
(*                                                                         *)
(* The model covers the process-wide state (state.py), the base wrapper    *)
(* (base_wrapper.py), the OpenAI and Gemini wrappers with their stream     *)
(* interceptors, and the query service (usage.py).                         *)
(*                                                                         *)
(* Strings that take part in pricing-key resolution (provider labels,      *)
(* model names, pricing keys) are sequences of characters, so that         *)
(* concatenation and the substring test are computed.  Execution ids are   *)
(* integers: 0 is "no id", positive ids are caller-supplied, negative ids  *)
(* are generated by uuid4.  Token counts are naturals; three negative      *)
(* sentinels stand for the non-integer values a response can carry.        *)
(***************************************************************************)
EXTENDS Integers, Sequences, FiniteSets, TLC

\* ---------------------------------------------------------------- bounds
MaxWrappers == 2      \* wrapper constructions per run
MaxRows == 2          \* rows over all database files
MaxChunks == 2        \* chunks of one underlying stream
MaxExtraNext == 2     \* next() calls after the underlying stream has ended
MaxTok == 2           \* largest token count a response or chunk reports
MaxTime == 2          \* days the clock runs through
MaxThreads == 2       \* threads calling into the library

\* ------------------------------------------------------- value encodings
Null == 0 - 1         \* Python None in a token field
Invalid == 0 - 2      \* a non-integer token value such as "invalid"
Missing == 0 - 3      \* key absent from a mapping-shaped usage

NoId == 0
NoPath == ""
DefaultPath == "default"
CustomPath == "custom"
NoSession == "no-session"
NoExc == "none"

LblOpenAI == <<"o">>
LblGemini == <<"g">>
LblAnthropic == <<"a">>
ModelM == <<"m">>
ModelN == <<"n">>
ModelUnknown == <<"u","n","k">>

Slash == <<"/">>

VARIABLES
    enabled,      \* state.is_tokenator_enabled
    db_path,      \* state.db_path
    wrappers,     \* the wrapper objects constructed so far
    migrated,     \* database files that hold the token_usage table
    db,           \* database file -> sequence of committed rows
    service,      \* the TokenUsageService object
    stream,       \* the stream interceptor in use and its underlying stream
    now,          \* the clock
    threads,      \* each thread's position in the call it is executing
    sessions,     \* the sessions of the wrappers' scoped_session registries
    last          \* the most recent operation and what the caller got from it

vars == <<enabled, db_path, wrappers, migrated, db, service, stream, now,
          threads, sessions, last>>

Paths == {DefaultPath, CustomPath}

\* ----------------------------------------------------------- utilities
RECURSIVE SumSeq(_)
SumSeq(s) == IF s = <<>> THEN 0 ELSE Head(s) + SumSeq(Tail(s))

Range(s) == {s[i] : i \in 1..Len(s)}

TotalRows == Len(db[DefaultPath]) + Len(db[CustomPath])

NoRet == [none |-> TRUE]

\* op: the operation; w: the wrapper it went through; arg: the execution id it
\* was given; fault: a database error was injected; perr: the error the provider
\* raised; exc: the exception the caller got; given: what the provider handed
\* over; ret: what the caller got back
Last(op, w, arg, fault, perr, exc, given, ret) ==
    [op |-> op, w |-> w, arg |-> arg, fault |-> fault, perr |-> perr, exc |-> exc,
     given |-> given, ret |-> ret]

\* ------------------------------------------------------------- threads
Threads == 1..MaxThreads

\* a thread that is not inside a call of the library; reads counts the
\* sessions its read operation holds open, done lists the rows of its logging
\* calls that returned after a commit
IdleThread ==
    [pc |-> "idle", op |-> "none", w |-> 0, arg |-> NoPath, fail |-> "none",
     eid |-> NoId, given |-> NoRet, fault |-> FALSE, reads |-> 0, res |-> NoRet,
     done |-> <<>>]

\* scoped_session(session_factory): the registry of a wrapper holds one
\* session per thread
SessionIds == (1..MaxWrappers) \X Threads

SessionOf_Shared(w, t) == <<w, 1>>

SessionOf(w, t) == <<w, t>>

\* pending: the rows added and not yet committed
ClosedSession == [open |-> FALSE, pending |-> <<>>]

\* ------------------------------------------------ schemas.py / utils.py
\* get_engine: db_path = state.db_path or get_default_db_path()
get_engine(state_db_path) ==
    IF state_db_path = NoPath THEN DefaultPath ELSE state_db_path

\* check_and_run_migrations(db_path): the constructor's argument, or the default
MigrationPath(arg) == IF arg = NoPath THEN DefaultPath ELSE arg

\* ---------------------------------------------- BaseWrapper.__init__
\* The step at which construction raises, if any.
InitFailures == {"none", "mkdir", "get_session", "migrate"}

EnabledAfterInit_NoReset(before, fail) == IF fail = "none" THEN before ELSE FALSE

\* line 22 sets the flag, line 42 clears it when any step raised
EnabledAfterInit(before, fail) == fail = "none"

\* state.db_path is assigned after mkdir (line 29) or cleared (line 32)
DbPathAfterInit(before, arg, fail) ==
    IF arg # NoPath /\ fail = "mkdir" THEN before ELSE arg

\* self.Session is assigned at line 34 unless an earlier step raised
SessionAfterInit(before, arg, fail) ==
    IF fail \in {"mkdir", "get_session"} THEN NoSession
    ELSE get_engine(DbPathAfterInit(before, arg, fail))

BaseWrapper__init__(kind, label, arg, fail) ==
    /\ Len(wrappers) < MaxWrappers
    /\ fail = "mkdir" => arg # NoPath
    /\ enabled' = EnabledAfterInit(enabled, fail)
    /\ db_path' = DbPathAfterInit(db_path, arg, fail)
    /\ wrappers' = Append(wrappers,
           [kind |-> kind, provider |-> label,
            Session |-> SessionAfterInit(db_path, arg, fail),
            initOk |-> fail = "none"])
    /\ migrated' = IF fail = "none" THEN migrated \cup {MigrationPath(arg)}
                   ELSE migrated
    /\ last' = Last("init", Len(wrappers) + 1, NoId, FALSE, NoExc, NoExc, NoRet, NoRet)
    /\ UNCHANGED <<threads, sessions, db, service, stream, now>>

\* ------------------------------------------------------------ responses
\* A non-streaming provider response: the typed SDK object (ChatCompletion,
\* GenerateContentResponse), a plain mapping, or anything else.  has = FALSE
\* is usage None / absent / empty.
NoUsage(shape, m) == [shape |-> shape, model |-> m, has |-> FALSE, p |-> 0, c |-> 0, t |-> 0]

OtherResponse == NoUsage("other", <<>>)

\* ------------------------------------- _process_response_usage (OpenAI, Gemini)
\* the optional detail columns of a row; Null is None (also: the details
\* object of the statistics is absent)
NoDetails ==
    [prompt_cached_input_tokens |-> Null,
     prompt_cached_creation_tokens |-> Null,
     prompt_audio_tokens |-> Null,
     completion_audio_tokens |-> Null,
     completion_reasoning_tokens |-> Null,
     completion_accepted_prediction_tokens |-> Null,
     completion_rejected_prediction_tokens |-> Null]

NoStats == [ok |-> FALSE, model |-> <<>>, prompt_tokens |-> 0,
            completion_tokens |-> 0, total_tokens |-> 0, details |-> NoDetails]

\* TokenUsageStats with prompt_tokens_details.cached_creation_tokens
DetailedStats(m, p, c, t, cc) ==
    [ok |-> TRUE, model |-> m, prompt_tokens |-> p,
     completion_tokens |-> c, total_tokens |-> t,
     details |-> [NoDetails EXCEPT !.prompt_cached_creation_tokens = cc]]

Stats(m, p, c, t) == DetailedStats(m, p, c, t, Null)

\* usage_dict.get(key, 0)
DictGet(v) == IF v = Missing THEN 0 ELSE v

\* response.get("model", "unknown")
DictModel(m) == IF m = <<>> THEN ModelUnknown ELSE m

\* TokenMetrics(...) validates its int fields and raises on None or a non-number
TokenMetricsValid(p, c, t) == p >= 0 /\ c >= 0 /\ t >= 0

process_response_usage_Lenient(r) ==
    IF r.shape = "other" \/ ~r.has THEN NoStats
    ELSE Stats(DictModel(r.model),
               IF DictGet(r.p) >= 0 THEN DictGet(r.p) ELSE 0,
               IF DictGet(r.c) >= 0 THEN DictGet(r.c) ELSE 0,
               IF DictGet(r.t) >= 0 THEN DictGet(r.t) ELSE 0)

process_response_usage(r) ==
    IF r.shape = "typed" THEN
        IF ~r.has THEN NoStats
        ELSE IF TokenMetricsValid(r.p, r.c, r.t)
             THEN Stats(r.model, r.p, r.c, r.t)
             ELSE NoStats
    ELSE IF r.shape = "dict" THEN
        IF ~r.has THEN NoStats
        ELSE IF TokenMetricsValid(DictGet(r.p), DictGet(r.c), DictGet(r.t))
             THEN Stats(DictModel(r.model), DictGet(r.p), DictGet(r.c), DictGet(r.t))
             ELSE NoStats
    ELSE NoStats

\* ------------------------------------ _process_response_usage (Anthropic)
\* A non-streaming Anthropic response: a Message or a mapping, with
\* input_tokens i, output_tokens o and cache_creation_input_tokens cc (Null:
\* None, Missing: the attribute or key is absent).
AnthropicResponse(shape, m, has, i, cc, o) ==
    [shape |-> shape, model |-> m, has |-> has, i |-> i, cc |-> cc, o |-> o]

\* getattr(usage, "cache_creation_input_tokens", 0) or 0
CacheCreationOrZero(cc) == IF cc \in {Null, Missing} THEN 0 ELSE cc

\* getattr(usage, "cache_creation_input_tokens", None)
CacheCreationOrNone(cc) == IF cc = Missing THEN Null ELSE cc

anthropic_process_response_usage(r) ==
    IF r.shape = "typed" THEN
        IF ~r.has THEN NoStats
        ELSE IF TokenMetricsValid(r.i + CacheCreationOrZero(r.cc), r.o, r.i + r.o)
             THEN DetailedStats(r.model, r.i + CacheCreationOrZero(r.cc), r.o, r.i + r.o,
                                CacheCreationOrNone(r.cc))
             ELSE NoStats
    ELSE IF r.shape = "dict" THEN
        \* getattr on a dict finds no such attribute: 0 and None
        IF ~r.has THEN NoStats
        ELSE IF TokenMetricsValid(DictGet(r.i), DictGet(r.o), DictGet(r.i) + DictGet(r.o))
             THEN DetailedStats(DictModel(r.model), DictGet(r.i), DictGet(r.o),
                                DictGet(r.i) + DictGet(r.o), Null)
             ELSE NoStats
    ELSE NoStats

\* ------------------------------------------------- BaseWrapper._log_usage
AllRows == Range(db[DefaultPath]) \cup Range(db[CustomPath])

Min(S) == CHOOSE x \in S : \A y \in S : x <= y

uuid4_Reused == 0 - 1

\* uuid.uuid4(): an identifier no row carries yet
uuid4 == Min({r.execution_id : r \in AllRows} \cup {0}) - 1

TokenUsageRow_Swapped(w, stats, id) ==
    [execution_id |-> id,
     provider |-> wrappers[w].provider,
     model |-> stats.model,
     prompt_tokens |-> stats.completion_tokens,
     completion_tokens |-> stats.prompt_tokens,
     total_tokens |-> stats.total_tokens,
     created_at |-> now] @@ stats.details

\* _log_usage_impl: the TokenUsage row built from the stats
TokenUsageRow(w, stats, id) ==
    [execution_id |-> id,
     provider |-> wrappers[w].provider,
     model |-> stats.model,
     prompt_tokens |-> stats.prompt_tokens,
     completion_tokens |-> stats.completion_tokens,
     total_tokens |-> stats.total_tokens,
     created_at |-> now] @@ stats.details

\* session.commit(): the table exists, the NOT NULL columns are set, no database error
CommitOk(row, path, dbFails) ==
    /\ ~dbFails
    /\ path \in migrated
    /\ row.prompt_tokens # Null
    /\ row.completion_tokens # Null
    /\ row.total_tokens # Null

LogResult(newdb, exc) == [db |-> newdb, exc |-> exc]

LogRow_Overwrites(w, stats, eid, dbFails) ==
    LET id == IF eid = NoId THEN uuid4 ELSE eid
        row == TokenUsageRow(w, stats, id)
        path == wrappers[w].Session
    IN  IF path = NoSession THEN LogResult(db, "AttributeError")
        ELSE IF CommitOk(row, path, dbFails)
             THEN LogResult([db EXCEPT ![path] = <<row>>], NoExc)
             ELSE LogResult(db, NoExc)

\* session.add(token_usage); session.commit() on the wrapper's session
LogRow(w, stats, eid, dbFails) ==
    LET id == IF eid = NoId THEN uuid4 ELSE eid
        row == TokenUsageRow(w, stats, id)
        path == wrappers[w].Session
    IN  IF path = NoSession THEN LogResult(db, "AttributeError")
        ELSE IF CommitOk(row, path, dbFails)
             THEN LogResult([db EXCEPT ![path] = Append(@, row)], NoExc)
             ELSE LogResult(db, NoExc)

log_usage_NoEnabledCheck(w, stats, eid, dbFails) == LogRow(w, stats, eid, dbFails)

log_usage(w, stats, eid, dbFails) ==
    IF ~enabled THEN LogResult(db, NoExc) ELSE LogRow(w, stats, eid, dbFails)

\* -------------------------- create / parse / generate_content (non-streaming)
ProviderErrors == {"APIConnectionError", "RateLimitError"}

CallRaises_LogsFirst(w, perr) ==
    /\ w \in 1..Len(wrappers)
    /\ perr \in ProviderErrors
    /\ TotalRows < MaxRows
    /\ db' = LogRow(w, Stats(ModelM, 0, 0, 0), NoId, FALSE).db
    /\ last' = Last("create", w, NoId, FALSE, perr, perr, NoRet, NoRet)
    /\ UNCHANGED <<threads, sessions, enabled, db_path, wrappers, migrated, service, stream, now>>

\* the provider call raises before anything is extracted or logged
CallRaises(w, perr) ==
    /\ w \in 1..Len(wrappers)
    /\ perr \in ProviderErrors
    /\ last' = Last("create", w, NoId, FALSE, perr, perr, NoRet, NoRet)
    /\ UNCHANGED <<threads, sessions, enabled, db_path, wrappers, migrated, db, service, stream, now>>

CallReturns(w, r, eid, dbFails) ==
    /\ w \in 1..Len(wrappers)
    /\ TotalRows < MaxRows
    /\ LET usage_data == process_response_usage(r)
           res == IF usage_data.ok THEN log_usage(w, usage_data, eid, dbFails)
                  ELSE LogResult(db, NoExc)
       IN  /\ db' = res.db
           /\ last' = IF res.exc # NoExc
                      THEN Last("create", w, eid, dbFails, NoExc, res.exc, r, NoRet)
                      ELSE Last("create", w, eid, dbFails, NoExc, NoExc, r, r)
    /\ UNCHANGED <<threads, sessions, enabled, db_path, wrappers, migrated, service, stream, now>>

\* anthropic/client_anthropic.py create, non-streaming
AnthropicCallReturns(w, r, eid, dbFails) ==
    /\ w \in 1..Len(wrappers)
    /\ wrappers[w].kind = "anthropic"
    /\ TotalRows < MaxRows
    /\ LET usage_data == anthropic_process_response_usage(r)
           res == IF usage_data.ok THEN log_usage(w, usage_data, eid, dbFails)
                  ELSE LogResult(db, NoExc)
       IN  /\ db' = res.db
           /\ last' = IF res.exc # NoExc
                      THEN Last("create", w, eid, dbFails, NoExc, res.exc, r, NoRet)
                      ELSE Last("create", w, eid, dbFails, NoExc, NoExc, r, r)
    /\ UNCHANGED <<threads, sessions, enabled, db_path, wrappers, migrated, service, stream, now>>

\* ------------------------------------------------------ stream chunks
\* One streamed chunk: its model (model / model_version) and its usage
\* (usage / usage_metadata; has = FALSE is None).
Chunk(m, has, p, c, t) == [model |-> m, has |-> has, p |-> p, c |-> c, t |-> t]

NoStream ==
    [active |-> FALSE, w |-> 0, eid |-> NoId,
     items |-> <<>>, ends |-> "StopIteration", pos |-> 0, finished |-> FALSE,
     chunks |-> <<>>,
     \* history of the iteration, as the caller and the callback saw it
     received |-> <<>>, nextCalls |-> 0, late |-> 0,
     callbacks |-> 0, cbArg |-> <<>>,
     rows |-> 0, errored |-> FALSE]

\* from ..state import is_tokenator_enabled: the value the flag had when the
\* wrapper module was imported, which is its initial value
ImportedEnabled == TRUE

\* openai/client_openai.py usage_callback: sums over the chunks that carry usage;
\* adding a count that is None raises
openai_usage_callback(w, chunks, eid, dbFails) ==
    IF chunks = <<>> \/ ~ImportedEnabled THEN LogResult(db, NoExc)
    ELSE IF \E i \in 1..Len(chunks) :
                chunks[i].has /\ Null \in {chunks[i].p, chunks[i].c, chunks[i].t}
         THEN LogResult(db, "TypeError")
    ELSE LET used == SelectSeq(chunks, LAMBDA ch : ch.has)
             usage_data == Stats(chunks[1].model,
                                 SumSeq([i \in 1..Len(used) |-> used[i].p]),
                                 SumSeq([i \in 1..Len(used) |-> used[i].c]),
                                 SumSeq([i \in 1..Len(used) |-> used[i].t]))
         IN  IF used # <<>> THEN log_usage(w, usage_data, eid, dbFails)
             ELSE LogResult(db, NoExc)

gemini_usage_callback_Sums(w, chunks, eid, dbFails) ==
    IF chunks = <<>> \/ ~ImportedEnabled THEN LogResult(db, NoExc)
    ELSE LET used == SelectSeq(chunks, LAMBDA ch : ch.has)
             usage_data == Stats(chunks[1].model,
                                 SumSeq([i \in 1..Len(used) |-> used[i].p]),
                                 SumSeq([i \in 1..Len(used) |->
                                            IF used[i].c = Null THEN 0 ELSE used[i].c]),
                                 SumSeq([i \in 1..Len(used) |-> used[i].t]))
         IN  IF chunks[Len(chunks)].has THEN log_usage(w, usage_data, eid, dbFails)
             ELSE LogResult(db, NoExc)

\* gemini/client_gemini.py usage_callback: the last chunk's usage_metadata
gemini_usage_callback(w, chunks, eid, dbFails) ==
    IF chunks = <<>> \/ ~ImportedEnabled THEN LogResult(db, NoExc)
    ELSE LET last_chunk == chunks[Len(chunks)]
             usage_data == Stats(chunks[1].model,
                                 last_chunk.p,
                                 IF last_chunk.c = Null THEN 0 ELSE last_chunk.c,
                                 last_chunk.t)
         IN  IF last_chunk.has THEN log_usage(w, usage_data, eid, dbFails)
             ELSE LogResult(db, NoExc)

\* One event of an Anthropic stream: a RawMessageStartEvent ("start", with
\* message.model and message.usage), a RawMessageDeltaEvent ("delta", with
\* usage.output_tokens), or any other event
AnthropicEvent(type, m, i, o) == [type |-> type, model |-> m, i |-> i, o |-> o]

\* the model of the last start event, or of nothing
RECURSIVE LastStartModel(_, _)
LastStartModel(chunks, m) ==
    IF chunks = <<>> THEN m
    ELSE LastStartModel(Tail(chunks),
                        IF Head(chunks).type = "start" THEN Head(chunks).model ELSE m)

\* anthropic/client_anthropic.py usage_callback: sums over start and delta
\* events, then logs
anthropic_usage_callback(w, chunks, eid, dbFails) ==
    IF chunks = <<>> \/ ~ImportedEnabled THEN LogResult(db, NoExc)
    ELSE LET starts == SelectSeq(chunks, LAMBDA ch : ch.type = "start")
             deltas == SelectSeq(chunks, LAMBDA ch : ch.type = "delta")
             prompt == SumSeq([i \in 1..Len(starts) |-> starts[i].i])
             completion == SumSeq([i \in 1..Len(starts) |-> starts[i].o])
                           + SumSeq([i \in 1..Len(deltas) |-> deltas[i].o])
             usage_data == Stats(LastStartModel(chunks, <<>>), prompt, completion,
                                 prompt + completion)
         IN  log_usage(w, usage_data, eid, dbFails)

usage_callback(w, chunks, eid, dbFails) ==
    IF wrappers[w].kind = "openai" THEN openai_usage_callback(w, chunks, eid, dbFails)
    ELSE IF wrappers[w].kind = "anthropic"
         THEN anthropic_usage_callback(w, chunks, eid, dbFails)
    ELSE gemini_usage_callback(w, chunks, eid, dbFails)

\* create(stream=True) / generate_content_stream: the interceptor around the
\* provider's stream.  items and ends are the provider's stream: the chunks it
\* delivers and how it ends (exhaustion or an error).  A behaviour follows one
\* interceptor from its creation on.
CreateStream(w, items, ends, eid) ==
    /\ ~stream.active
    /\ w \in 1..Len(wrappers)
    /\ stream' = [NoStream EXCEPT !.active = TRUE, !.w = w, !.eid = eid,
                                  !.items = items, !.ends = ends]
    /\ last' = Last("create_stream", w, eid, FALSE, NoExc, NoExc, NoRet, NoRet)
    /\ UNCHANGED <<threads, sessions, enabled, db_path, wrappers, migrated, db, service, now>>

\* self._base_stream.__next__(): the provider's stream is a generator; once it
\* has raised (exhaustion or an error) every further call raises StopIteration
BaseNext(s) ==
    IF s.finished THEN [sig |-> "StopIteration", chunk |-> NoRet]
    ELSE IF s.pos < Len(s.items) THEN [sig |-> "chunk", chunk |-> s.items[s.pos + 1]]
    ELSE [sig |-> s.ends, chunk |-> NoRet]

\* the callback is invoked when the list is non-empty (a callback is always given)
CallbackDue(s) == s.chunks # <<>>

ReturnedChunk_Stale(chunks, chunk) == IF chunks = <<>> THEN chunk ELSE chunks[1]

\* return chunk: the chunk just pulled, after it was appended to self._chunks
ReturnedChunk(chunks, chunk) == chunk

\* __next__ / __anext__ of the four interceptors
InterceptorNext(dbFails) ==
    /\ stream.active
    /\ stream.late < MaxExtraNext
    /\ TotalRows < MaxRows
    /\ LET s == stream
           b == BaseNext(s)
           counted == [s EXCEPT !.nextCalls = @ + 1,
                                !.late = IF s.finished THEN @ + 1 ELSE @]
       IN  IF b.sig = "chunk" THEN
               /\ stream' = [counted EXCEPT !.pos = @ + 1,
                                            !.chunks = Append(@, b.chunk),
                                            !.received =
                                                Append(@, ReturnedChunk(s.chunks, b.chunk))]
               /\ db' = db
               /\ last' = Last("next", s.w, s.eid, FALSE, NoExc, NoExc, b.chunk,
                               ReturnedChunk(s.chunks, b.chunk))
           ELSE IF b.sig = "StopIteration" THEN
               LET due == CallbackDue(s)
                   res == IF due THEN usage_callback(s.w, s.chunks, s.eid, dbFails)
                          ELSE LogResult(db, NoExc)
               IN  /\ stream' = [counted EXCEPT
                                    !.finished = TRUE,
                                    !.callbacks = IF due THEN @ + 1 ELSE @,
                                    !.cbArg = IF due THEN s.chunks ELSE @,
                                    !.rows = @ + (Len(res.db[DefaultPath]) + Len(res.db[CustomPath])
                                                  - TotalRows)]
                   /\ db' = res.db
                   /\ last' = Last("next", s.w, s.eid, dbFails, NoExc,
                                   IF res.exc # NoExc THEN res.exc ELSE "StopIteration",
                                   NoRet, NoRet)
           ELSE
               /\ stream' = [counted EXCEPT !.finished = TRUE, !.errored = TRUE]
               /\ db' = db
               /\ last' = Last("next", s.w, s.eid, FALSE, b.sig, b.sig, NoRet, NoRet)
    /\ UNCHANGED <<threads, sessions, enabled, db_path, wrappers, migrated, service, now>>

\* --------------------------------------------------- TokenUsageService
NoService == [made |-> FALSE, MODEL_COSTS |-> <<>>]

\* TokenRate, in units of 1e-8 dollars per token; Null is None
TokenRate(prompt, completion, prompt_audio, completion_audio, prompt_cached_input, prompt_cached_creation) ==
    [prompt |-> prompt, completion |-> completion,
     prompt_audio |-> prompt_audio, completion_audio |-> completion_audio,
     prompt_cached_input |-> prompt_cached_input,
     prompt_cached_creation |-> prompt_cached_creation]

\* MODEL_COSTS is a dict: its entries in insertion order.  An entry of the
\* price list without audio and cache prices: info.get(...) and info.get(...) or 0
PricingEntry(k, prompt, completion) ==
    [key |-> k, rate |-> TokenRate(prompt, completion, Null, Null, 0, 0)]

GPT4O_PRICING == TokenRate(250, 1000, 10000, 20000, 125, 125)

LblDefault == <<"d","e","f">>

\* _get_model_costs: empty when disabled, else the fetched price list
get_model_costs(fetched) == IF ~enabled THEN <<>> ELSE fetched

TokenUsageService__init__(fetched, netFails) ==
    /\ ~service.made
    /\ IF enabled /\ netFails
       THEN /\ service' = service
            /\ last' = Last("service_init", 0, NoId, FALSE, NoExc, "RequestException", NoRet, NoRet)
       ELSE /\ service' = [made |-> TRUE, MODEL_COSTS |-> get_model_costs(fetched)]
            /\ last' = Last("service_init", 0, NoId, FALSE, NoExc, NoExc, NoRet, NoRet)
    /\ UNCHANGED <<threads, sessions, enabled, db_path, wrappers, migrated, db, stream, now>>

\* prompt_tokens_details / completion_tokens_details is None
NoPromptDetails == [present |-> FALSE]
NoCompletionDetails == [present |-> FALSE]

\* TokenUsageReport()
EmptyReport ==
    [total_cost |-> 0, total_tokens |-> 0, prompt_tokens |-> 0, completion_tokens |-> 0,
     prompt_tokens_details |-> NoPromptDetails,
     completion_tokens_details |-> NoCompletionDetails,
     providers |-> <<>>]

Keys(costs) == {costs[i].key : i \in 1..Len(costs)}

\* usage.model in k
IsSubstring(m, k) ==
    \E i \in 0..(Len(k) - Len(m)) : SubSeq(k, i + 1, i + Len(m)) = m

ResolveKey_SubstringFirst(costs, u) ==
    IF u.model \in Keys(costs) THEN [key |-> u.model, costs |-> costs]
    ELSE LET matched_keys == SelectSeq(costs, LAMBDA e : IsSubstring(u.model, e.key))
         IN  IF matched_keys # <<>> THEN [key |-> matched_keys[1].key, costs |-> costs]
             ELSE IF (u.provider \o Slash \o u.model) \in Keys(costs)
                  THEN [key |-> u.provider \o Slash \o u.model, costs |-> costs]
             ELSE [key |-> u.model,
                   costs |-> Append(costs, [key |-> u.model, rate |-> GPT4O_PRICING])]

\* model key resolution for one row; the fallback is registered in MODEL_COSTS
ResolveKey(costs, u) ==
    IF u.model \in Keys(costs) THEN [key |-> u.model, costs |-> costs]
    ELSE IF (u.provider \o Slash \o u.model) \in Keys(costs)
         THEN [key |-> u.provider \o Slash \o u.model, costs |-> costs]
    ELSE LET matched_keys == SelectSeq(costs, LAMBDA e : IsSubstring(u.model, e.key))
         IN  IF matched_keys # <<>> THEN [key |-> matched_keys[1].key, costs |-> costs]
             ELSE [key |-> u.model,
                   costs |-> Append(costs, [key |-> u.model, rate |-> GPT4O_PRICING])]

\* provider_key = usage.provider or "default"
ProviderKey(u) == IF u.provider = <<>> THEN LblDefault ELSE u.provider

\* the loop over usages: each row with its provider key and model key
RECURSIVE GroupUsages(_, _, _)
GroupUsages(costs, usages, acc) ==
    IF usages = <<>> THEN [costs |-> costs, keyed |-> acc]
    ELSE LET r == ResolveKey(costs, Head(usages))
         IN  GroupUsages(r.costs, Tail(usages),
                         Append(acc, [provider |-> ProviderKey(Head(usages)),
                                      model |-> r.key, row |-> Head(usages)]))

\* dict insertion order: first occurrences
RECURSIVE Distinct(_)
Distinct(s) ==
    IF s = <<>> THEN <<>>
    ELSE LET rest == Distinct(SubSeq(s, 1, Len(s) - 1))
             x == s[Len(s)]
         IN  IF x \in Range(rest) THEN rest ELSE Append(rest, x)

\* Python truth of an optional count or rate: neither None nor 0
Truthy(v) == v # Null /\ v # 0

OrZero_Identity(v) == v

\* v or 0
OrZero(v) == IF v = Null THEN 0 ELSE v

\* sum(u.col or 0 for u in usages)
SumColumn(rows, col) == SumSeq([i \in 1..Len(rows) |-> OrZero(rows[i][col])])

\* round(x, 6) of an amount in units of 1e-8 dollars, ties to the even digit
Round6(x) ==
    LET q == x \div 100
        r == x % 100
    IN  IF r < 50 THEN q * 100
        ELSE IF r > 50 THEN (q + 1) * 100
        ELSE IF q % 2 = 0 THEN q * 100 ELSE (q + 1) * 100

\* lines 140-149: two assignments in sequence, the second overwriting the first
PromptTextTokens(u) ==
    IF Truthy(u.prompt_audio_tokens) THEN u.prompt_tokens - u.prompt_audio_tokens
    ELSE IF Truthy(u.prompt_cached_input_tokens)
         THEN u.prompt_tokens - u.prompt_cached_input_tokens
    ELSE u.prompt_tokens

\* lines 151-155
CompletionTextTokens(u) ==
    IF Truthy(u.completion_audio_tokens)
    THEN u.completion_tokens - u.completion_audio_tokens
    ELSE u.completion_tokens

\* tokens * rate when both are recorded, else nothing (a warning)
Surcharge(tokens, rate) == IF Truthy(tokens) /\ Truthy(rate) THEN tokens * rate ELSE 0

\* lines 138-201: the cost of one row at the rates of its model key
UsageCost(u, rates) ==
    PromptTextTokens(u) * rates.prompt
    + CompletionTextTokens(u) * rates.completion
    + Surcharge(u.prompt_audio_tokens, rates.prompt_audio)
    + Surcharge(u.completion_audio_tokens, rates.completion_audio)
    + Surcharge(u.prompt_cached_input_tokens, rates.prompt_cached_input)
    + Surcharge(u.prompt_cached_creation_tokens, rates.prompt_cached_creation)

PromptColumns ==
    {"prompt_cached_input_tokens", "prompt_cached_creation_tokens", "prompt_audio_tokens"}

CompletionColumns ==
    {"completion_audio_tokens", "completion_reasoning_tokens",
     "completion_accepted_prediction_tokens", "completion_rejected_prediction_tokens"}

\* PromptTokenDetails(...) if any(...) else None
PromptDetails(rows) ==
    IF \E i \in 1..Len(rows) : \E col \in PromptColumns : Truthy(rows[i][col])
    THEN [present |-> TRUE,
          cached_input_tokens |-> SumColumn(rows, "prompt_cached_input_tokens"),
          cached_creation_tokens |-> SumColumn(rows, "prompt_cached_creation_tokens"),
          audio_tokens |-> SumColumn(rows, "prompt_audio_tokens")]
    ELSE NoPromptDetails

\* CompletionTokenDetails(...) if any(...) else None
CompletionDetails(rows) ==
    IF \E i \in 1..Len(rows) : \E col \in CompletionColumns : Truthy(rows[i][col])
    THEN [present |-> TRUE,
          audio_tokens |-> SumColumn(rows, "completion_audio_tokens"),
          reasoning_tokens |-> SumColumn(rows, "completion_reasoning_tokens"),
          accepted_prediction_tokens |->
              SumColumn(rows, "completion_accepted_prediction_tokens"),
          rejected_prediction_tokens |->
              SumColumn(rows, "completion_rejected_prediction_tokens")]
    ELSE NoCompletionDetails

\* the rows grouped under one provider key and one model key
RowsOfModel(keyed, prov, mk) ==
    LET us == SelectSeq(keyed, LAMBDA k : k.provider = prov /\ k.model = mk)
    IN  [i \in 1..Len(us) |-> us[i].row]

\* model_cost before rounding
ModelCost(costs, keyed, prov, mk) ==
    LET rows == RowsOfModel(keyed, prov, mk)
        model_rates == (CHOOSE e \in Range(costs) : e.key = mk).rate
    IN  SumSeq([i \in 1..Len(rows) |-> UsageCost(rows[i], model_rates)])

ModelUsage_LastRowOnly(costs, keyed, prov, mk) ==
    LET rows == RowsOfModel(keyed, prov, mk)
    IN  [model |-> mk,
         total_cost |-> Round6(ModelCost(costs, keyed, prov, mk)),
         total_tokens |-> rows[Len(rows)].total_tokens,
         prompt_tokens |-> rows[Len(rows)].prompt_tokens,
         completion_tokens |-> rows[Len(rows)].completion_tokens,
         prompt_tokens_details |-> PromptDetails(rows),
         completion_tokens_details |-> CompletionDetails(rows)]

\* lines 131-262: one model entry, the raw token fields summed over its rows
ModelUsage(costs, keyed, prov, mk) ==
    LET rows == RowsOfModel(keyed, prov, mk)
    IN  [model |-> mk,
         total_cost |-> Round6(ModelCost(costs, keyed, prov, mk)),
         total_tokens |-> SumSeq([i \in 1..Len(rows) |-> rows[i].total_tokens]),
         prompt_tokens |-> SumSeq([i \in 1..Len(rows) |-> rows[i].prompt_tokens]),
         completion_tokens |-> SumSeq([i \in 1..Len(rows) |-> rows[i].completion_tokens]),
         prompt_tokens_details |-> PromptDetails(rows),
         completion_tokens_details |-> CompletionDetails(rows)]

\* provider_metrics["total_cost"] before rounding
ProviderCost(costs, keyed, prov) ==
    LET mine == SelectSeq(keyed, LAMBDA k : k.provider = prov)
        model_keys == Distinct([i \in 1..Len(mine) |-> mine[i].model])
    IN  SumSeq([i \in 1..Len(model_keys) |-> ModelCost(costs, keyed, prov, model_keys[i])])

\* lines 115-336: one provider entry; its details are present when a sum is
\* not zero
ProviderUsage(costs, keyed, prov) ==
    LET mine == SelectSeq(keyed, LAMBDA k : k.provider = prov)
        rows == [i \in 1..Len(mine) |-> mine[i].row]
        model_keys == Distinct([i \in 1..Len(mine) |-> mine[i].model])
        models_list ==
            [i \in 1..Len(model_keys) |-> ModelUsage(costs, keyed, prov, model_keys[i])]
    IN  [provider |-> prov,
         models |-> models_list,
         total_cost |-> Round6(ProviderCost(costs, keyed, prov)),
         total_tokens |-> SumSeq([i \in 1..Len(models_list) |-> models_list[i].total_tokens]),
         prompt_tokens |-> SumSeq([i \in 1..Len(models_list) |-> models_list[i].prompt_tokens]),
         completion_tokens |->
             SumSeq([i \in 1..Len(models_list) |-> models_list[i].completion_tokens]),
         prompt_tokens_details |->
             IF \E col \in PromptColumns : SumColumn(rows, col) # 0
             THEN [present |-> TRUE,
                   cached_input_tokens |-> SumColumn(rows, "prompt_cached_input_tokens"),
                   cached_creation_tokens |->
                       SumColumn(rows, "prompt_cached_creation_tokens"),
                   audio_tokens |-> SumColumn(rows, "prompt_audio_tokens")]
             ELSE NoPromptDetails,
         completion_tokens_details |->
             IF \E col \in CompletionColumns : SumColumn(rows, col) # 0
             THEN [present |-> TRUE,
                   audio_tokens |-> SumColumn(rows, "completion_audio_tokens"),
                   reasoning_tokens |-> SumColumn(rows, "completion_reasoning_tokens"),
                   accepted_prediction_tokens |->
                       SumColumn(rows, "completion_accepted_prediction_tokens"),
                   rejected_prediction_tokens |->
                       SumColumn(rows, "completion_rejected_prediction_tokens")]
             ELSE NoCompletionDetails]

\* _calculate_cost: the report and MODEL_COSTS afterwards
calculate_cost(costs, usages) ==
    IF ~enabled \/ costs = <<>> THEN [report |-> EmptyReport, costs |-> costs]
    ELSE LET g == GroupUsages(costs, usages, <<>>)
             provider_keys == Distinct([i \in 1..Len(g.keyed) |-> g.keyed[i].provider])
             providers_list ==
                 [i \in 1..Len(provider_keys) |->
                     ProviderUsage(g.costs, g.keyed, provider_keys[i])]
         IN  [report |->
                 [total_cost |->
                      Round6(SumSeq([i \in 1..Len(provider_keys) |->
                                        ProviderCost(g.costs, g.keyed, provider_keys[i])])),
                  prompt_tokens_details |-> NoPromptDetails,
                  completion_tokens_details |-> NoCompletionDetails,
                  total_tokens |->
                      SumSeq([i \in 1..Len(providers_list) |-> providers_list[i].total_tokens]),
                  prompt_tokens |->
                      SumSeq([i \in 1..Len(providers_list) |-> providers_list[i].prompt_tokens]),
                  completion_tokens |->
                      SumSeq([i \in 1..Len(providers_list) |->
                                 providers_list[i].completion_tokens]),
                  providers |-> providers_list],
              costs |-> g.costs]

\* ------------------------------------------------------ read operations
\* The clock counts half seconds from midnight of day 0, so that an instant
\* between two whole seconds exists.
SecondTicks == 2
HourTicks == 7200
DayTicks == 172800
WeekTicks == 1209600
MonthTicks == 5184000

\* get_session()(): a session on state.db_path, or on the default file
ReadPath == get_engine(db_path)

ReadResult(exc, report, costs) == [exc |-> exc, report |-> report, costs |-> costs]

Disabled == ReadResult(NoExc, EmptyReport, service.MODEL_COSTS)

\* a query on a file without the token_usage table raises
NoTable == ReadResult("OperationalError", EmptyReport, service.MODEL_COSTS)

Calculated(usages) ==
    LET cc == calculate_cost(service.MODEL_COSTS, usages)
    IN  ReadResult(NoExc, cc.report, cc.costs)

query_usage_Exclusive(start, end, provider, model) ==
    IF ~enabled THEN Disabled
    ELSE IF ReadPath \notin migrated THEN NoTable
    ELSE Calculated(SelectSeq(db[ReadPath],
            LAMBDA u : /\ start < u.created_at /\ u.created_at <= end
                       /\ (provider # <<>> => u.provider = provider)
                       /\ (model # <<>> => u.model = model)))

\* _query_usage: created_at between start and end, optional equality filters
query_usage(start, end, provider, model) ==
    IF ~enabled THEN Disabled
    ELSE IF ReadPath \notin migrated THEN NoTable
    ELSE Calculated(SelectSeq(db[ReadPath],
            LAMBDA u : /\ start <= u.created_at /\ u.created_at <= end
                       /\ (provider # <<>> => u.provider = provider)
                       /\ (model # <<>> => u.model = model)))

last_hour(provider, model) ==
    IF ~enabled THEN Disabled ELSE query_usage(now - HourTicks, now, provider, model)

last_day(provider, model) ==
    IF ~enabled THEN Disabled ELSE query_usage(now - DayTicks, now, provider, model)

last_week(provider, model) ==
    IF ~enabled THEN Disabled ELSE query_usage(now - WeekTicks, now, provider, model)

last_month(provider, model) ==
    IF ~enabled THEN Disabled ELSE query_usage(now - MonthTicks, now, provider, model)

\* between with datetime arguments
between(start, end, provider, model) ==
    IF ~enabled THEN Disabled ELSE query_usage(start, end, provider, model)

\* midnight at the start of day d
DayStart(d) == d * DayTicks

\* datetime.strptime(start_date, "%Y-%m-%d"): a date-only string names day d
ParseStartDate(d) == DayStart(d)

\* strptime(end_date, "%Y-%m-%d") + timedelta(days=1) - timedelta(seconds=1)
ParseEndDate(d) == DayStart(d) + DayTicks - SecondTicks

\* between with date-only strings
between_dates(start_date, end_date, provider, model) ==
    IF ~enabled THEN Disabled
    ELSE query_usage(ParseStartDate(start_date), ParseEndDate(end_date), provider, model)

for_execution(execution_id) ==
    IF ~enabled THEN Disabled
    ELSE IF ReadPath \notin migrated THEN NoTable
    ELSE Calculated(SelectSeq(db[ReadPath], LAMBDA u : u.execution_id = execution_id))

\* the rows order_by(created_at.desc()).first() can return
LatestRows ==
    {u \in Range(db[ReadPath]) : \A v \in Range(db[ReadPath]) : v.created_at <= u.created_at}

\* last_execution, first being the row the ordered query returned
last_execution(first) ==
    IF ~enabled THEN Disabled
    ELSE IF ReadPath \notin migrated THEN NoTable
    ELSE IF db[ReadPath] = <<>> THEN ReadResult(NoExc, EmptyReport, service.MODEL_COSTS)
    ELSE for_execution(first.execution_id)

all_time ==
    IF ~enabled THEN Disabled
    ELSE IF ReadPath \notin migrated THEN NoTable
    ELSE Calculated(db[ReadPath])

\* a read operation called on the service: the caller gets res
ReadGiven(op, arg, given, res) ==
    /\ service.made
    /\ service' = [service EXCEPT !.MODEL_COSTS = res.costs]
    /\ last' = Last(op, 0, arg, FALSE, NoExc, res.exc, given,
                    IF res.exc = NoExc THEN res.report ELSE NoRet)
    /\ UNCHANGED <<threads, sessions, enabled, db_path, wrappers, migrated, db, stream, now>>

Read(op, arg, res) == ReadGiven(op, arg, NoRet, res)

\* the arguments of a time-window operation (start and end: between only)
Window(provider, model, start, end) ==
    [provider |-> provider, model |-> model, start |-> start, end |-> end]

\* the instants at which the clock is read: around midnight, around one hour
\* past midnight and within the last second of each day
Instants ==
    UNION {{DayStart(d), DayStart(d) + HourTicks, DayStart(d) + HourTicks + 1,
            DayStart(d + 1) - SecondTicks, DayStart(d + 1) - 1} : d \in 0..(MaxTime - 1)}
    \cup {DayStart(MaxTime)}

\* time passes between two operations: the clock moves on to an instant of I
Tick(I) ==
    /\ \E t \in I : t > now /\ now' = t
    /\ last' = Last("tick", 0, NoId, FALSE, NoExc, NoExc, NoRet, NoRet)
    /\ UNCHANGED <<threads, sessions, enabled, db_path, wrappers, migrated, db, service, stream>>

\* ---------------------------------------------------------------- inputs
Kinds == {"openai", "gemini"}
Label(kind) ==
    CASE kind = "openai" -> LblOpenAI
      [] kind = "gemini" -> LblGemini
      [] kind = "anthropic" -> LblAnthropic
PathArgs == {NoPath, CustomPath}
ExecIds == {NoId, 1}

\* non-streaming responses: typed and mapping-shaped, with and without usage,
\* with well-formed and malformed token counts
Responses ==
    {NoUsage("typed", ModelM), NoUsage("dict", ModelM), OtherResponse}
    \cup {[shape |-> "typed", model |-> ModelM, has |-> TRUE, p |-> 1, c |-> c, t |-> MaxTok] :
            c \in {1, Null}}
    \cup {[shape |-> "dict", model |-> ModelM, has |-> TRUE, p |-> p, c |-> 1, t |-> MaxTok] :
            p \in {1, Invalid, Missing}}
    \cup {[shape |-> "dict", model |-> <<>>, has |-> TRUE, p |-> 1, c |-> 1, t |-> Null]}

\* typed responses with different combinations of token counts
TokVals == 1..MaxTok
CountedResponses ==
    {[shape |-> "typed", model |-> ModelM, has |-> TRUE, p |-> p, c |-> c, t |-> p + c] :
        p \in TokVals, c \in {1, MaxTok}}

ChunkVals == {Chunk(ModelM, FALSE, 0, 0, 0), Chunk(ModelM, TRUE, 1, 1, MaxTok),
              Chunk(ModelN, TRUE, 1, Null, 1)}

RECURSIVE SeqsUpTo(_, _)
SeqsUpTo(S, n) ==
    IF n = 0 THEN {<<>>}
    ELSE LET shorter == SeqsUpTo(S, n - 1)
         IN  shorter \cup {Append(q, x) : q \in {r \in shorter : Len(r) = n - 1}, x \in S}

StreamEnds == {"StopIteration", "APIError"}

\* one pricing table with an entry for the model of the responses
UnitPricing == {<<PricingEntry(ModelM, 1, 2)>>}

\* one typed response with usage, and responses that differ in total_tokens
UsageResponses ==
    {[shape |-> "typed", model |-> ModelM, has |-> TRUE, p |-> 1, c |-> 1, t |-> MaxTok]}
TotalsResponses ==
    {[shape |-> "typed", model |-> ModelM, has |-> TRUE, p |-> 1, c |-> 1, t |-> t] :
        t \in {1, MaxTok}}

\* one stream chunk with usage, and the metrics of one logged call
UsageChunkVals == {Chunk(ModelM, TRUE, 1, 1, MaxTok)}
LoggedStats == {Stats(ModelM, 1, 1, MaxTok)}

\* ------------------------------------------------------- specification
Init ==
    /\ enabled = TRUE
    /\ db_path = NoPath
    /\ wrappers = <<>>
    /\ migrated \in {{}, {DefaultPath}}
    /\ db = [f \in Paths |-> <<>>]
    /\ service = NoService
    /\ stream = NoStream
    /\ now = 0
    /\ threads = [t \in Threads |-> IdleThread]
    /\ sessions = [s \in SessionIds |-> ClosedSession]
    /\ last = Last("start", 0, NoId, FALSE, NoExc, NoExc, NoRet, NoRet)

NewWrapper(K, A, F) ==
    \E kind \in K, arg \in A, fail \in F :
        BaseWrapper__init__(kind, Label(kind), arg, fail)

NewService(T) ==
    \E fetched \in T, netFails \in BOOLEAN :
        TokenUsageService__init__(fetched, netFails)

ProviderRaises ==
    \E w \in 1..MaxWrappers, perr \in ProviderErrors : CallRaises(w, perr)

ProviderReturns(R, E) ==
    \E w \in 1..MaxWrappers, r \in R, eid \in E, dbFails \in BOOLEAN :
        CallReturns(w, r, eid, dbFails)

\* the usage of an OpenAI chunk has integer counts; candidates_token_count of
\* a Gemini chunk may be None
ChunksOfKind(kind, items) ==
    kind = "openai" => \A i \in 1..Len(items) : items[i].c # Null

NewStream(C, X, E) ==
    \E w \in 1..Len(wrappers), items \in SeqsUpTo(C, MaxChunks),
       ends \in X, eid \in E :
        /\ ChunksOfKind(wrappers[w].kind, items)
        /\ CreateStream(w, items, ends, eid)

StreamNext == \E dbFails \in BOOLEAN : InterceptorNext(dbFails)

ReadWindow(F, M, T) ==
    \E provider \in F, model \in M :
        \/ ReadGiven("last_hour", NoId, Window(provider, model, Null, Null),
                     last_hour(provider, model))
        \/ ReadGiven("last_day", NoId, Window(provider, model, Null, Null),
                     last_day(provider, model))
        \/ ReadGiven("last_week", NoId, Window(provider, model, Null, Null),
                     last_week(provider, model))
        \/ ReadGiven("last_month", NoId, Window(provider, model, Null, Null),
                     last_month(provider, model))
        \/ \E start \in T, end \in T :
               ReadGiven("between", NoId, Window(provider, model, start, end),
                         between(start, end, provider, model))

ReadForExecution ==
    \E e \in ExecIds \ {NoId} : Read("for_execution", e, for_execution(e))

ReadLastExecution ==
    \/ /\ LatestRows = {}
       /\ Read("last_execution", NoId, last_execution(NoRet))
    \/ \E first \in LatestRows : Read("last_execution", NoId, last_execution(first))

ReadAllTime == Read("all_time", NoId, all_time)

\* constructions only, with every failure
NextInit == NewWrapper(Kinds, PathArgs, InitFailures)

SpecInit == Init /\ [][NextInit]_vars

\* wrappers and non-streaming calls
Next ==
    \/ NewWrapper({"openai"}, PathArgs, {"none", "mkdir"})
    \/ ProviderRaises
    \/ ProviderReturns(Responses, {1})

Spec == Init /\ [][Next]_vars

\* wrappers and streaming calls
NextStream ==
    \/ NewWrapper(Kinds, {CustomPath}, {"none", "mkdir"})
    \/ NewStream(ChunkVals, StreamEnds, {1})
    \/ StreamNext

SpecStream == Init /\ [][NextStream]_vars

\* both logging paths with the query service
NextRead ==
    \/ NewWrapper({"openai"}, {NoPath}, {"none", "migrate"})
    \/ NewService(UnitPricing)
    \/ ProviderReturns(UsageResponses, {1})
    \/ NewStream(UsageChunkVals, {"StopIteration"}, {1})
    \/ StreamNext
    \/ ReadWindow({<<>>}, {<<>>}, {0})
    \/ ReadForExecution
    \/ ReadLastExecution
    \/ ReadAllTime

SpecRead == Init /\ [][NextRead]_vars

\* logging followed by for_execution
NextRound ==
    \/ NewWrapper({"openai"}, PathArgs, {"none"})
    \/ NewService(UnitPricing)
    \/ ProviderReturns(CountedResponses, {1})
    \/ ReadForExecution

SpecRound == Init /\ [][NextRound]_vars

\* for_execution with the execution id of a stored row
ReadForExecutionOfRow ==
    \E u \in AllRows : Read("for_execution", u.execution_id, for_execution(u.execution_id))

\* logging with and without an execution id, followed by for_execution
NextIds ==
    \/ NewWrapper({"openai"}, {NoPath}, {"none"})
    \/ NewService(UnitPricing)
    \/ ProviderReturns(TotalsResponses, ExecIds)
    \/ NewStream(UsageChunkVals, {"StopIteration"}, {NoId})
    \/ StreamNext
    \/ ReadForExecutionOfRow

SpecIds == Init /\ [][NextIds]_vars

\* a moment, one hour, a moment more than one hour, and one day and one hour
\* after the start
WindowInstants == {1, HourTicks, HourTicks + 1, DayStart(1) + HourTicks}

\* logging at different instants, followed by time-window reads
NextWindow ==
    \/ NewWrapper({"openai"}, {NoPath}, {"none"})
    \/ NewService(UnitPricing)
    \/ ProviderReturns(UsageResponses, {1})
    \/ Tick(WindowInstants)
    \/ ReadWindow({<<>>, LblOpenAI}, {<<>>, ModelN}, {0, HourTicks})

SpecWindow == Init /\ [][NextWindow]_vars

\* the arguments of between called with date-only strings
DateWindow(provider, model, start_date, end_date) ==
    [provider |-> provider, model |-> model,
     start_date |-> start_date, end_date |-> end_date]

Days == 0..MaxTime

ReadDates(F, M) ==
    \E provider \in F, model \in M, start_date \in Days, end_date \in Days :
        ReadGiven("between", NoId, DateWindow(provider, model, start_date, end_date),
                  between_dates(start_date, end_date, provider, model))

\* logging at any instant, followed by between with date-only strings
NextDay ==
    \/ NewWrapper({"openai"}, {NoPath}, {"none"})
    \/ NewService(UnitPricing)
    \/ ProviderReturns(UsageResponses, {1})
    \/ Tick(Instants)
    \/ ReadDates({<<>>}, {<<>>})

SpecDay == Init /\ [][NextDay]_vars

\* responses of two models with different token counts
TwoModels ==
    {[shape |-> "typed", model |-> ModelM, has |-> TRUE, p |-> 1, c |-> 1, t |-> MaxTok],
     [shape |-> "typed", model |-> ModelN, has |-> TRUE, p |-> MaxTok, c |-> 1, t |-> 1]}

\* price lists in which a model is found by its own name, by "provider/model",
\* by a key that contains it, or not at all
CostTables ==
    {<<PricingEntry(ModelM, 1, 2)>>,
     <<PricingEntry(LblOpenAI \o Slash \o ModelM, 1, 2), PricingEntry(ModelN, 3, 4)>>,
     <<PricingEntry(ModelM \o ModelN, 1, 2), PricingEntry(ModelN \o ModelM, 3, 4)>>,
     <<PricingEntry(ModelN \o ModelM, 1, 2), PricingEntry(LblOpenAI \o Slash \o ModelM, 3, 4),
       PricingEntry(ModelM, 5, 6)>>,
     <<PricingEntry(ModelM \o ModelN, 1, 2), PricingEntry(LblOpenAI \o Slash \o ModelM, 3, 4)>>,
     <<PricingEntry(<<"z">>, 1, 2)>>}

\* logging by two providers, followed by time-window reads with a model filter
NextCost ==
    \/ NewWrapper(Kinds, {NoPath}, {"none"})
    \/ NewService(CostTables)
    \/ ProviderReturns(TwoModels, {NoId})
    \/ ReadWindow({<<>>}, {<<>>, ModelM}, {0})

SpecCost == Init /\ [][NextCost]_vars

\* logging by two providers, followed by reads over all rows and over one row
NextTotals ==
    \/ NewWrapper(Kinds, {NoPath}, {"none"})
    \/ NewService(CostTables)
    \/ ProviderReturns(TwoModels, {NoId})
    \/ ReadAllTime
    \/ ReadForExecutionOfRow

SpecTotals == Init /\ [][NextTotals]_vars

\* Anthropic responses: Messages and mappings, cache creation present, zero,
\* None and absent
AnthropicResponses ==
    {AnthropicResponse(shape, ModelM, TRUE, i, cc, 1) :
        shape \in {"typed", "dict"}, i \in TokVals, cc \in {Missing, Null, 0, 1}}
    \cup {AnthropicResponse("typed", ModelM, FALSE, 0, 0, 0)}

AnthropicReturns(R, E) ==
    \E w \in 1..MaxWrappers, r \in R, eid \in E, dbFails \in BOOLEAN :
        AnthropicCallReturns(w, r, eid, dbFails)

\* Anthropic wrappers and non-streaming calls
NextAnthropic ==
    \/ NewWrapper({"anthropic"}, {NoPath}, {"none"})
    \/ AnthropicReturns(AnthropicResponses, {1})

SpecAnthropic == Init /\ [][NextAnthropic]_vars

\* rows written by earlier runs of the program: the seven optional columns
\* all None, all zero, and recorded in part
Details(ci, cc, pa, ca, cr, ap, rp) ==
    [prompt_cached_input_tokens |-> ci,
     prompt_cached_creation_tokens |-> cc,
     prompt_audio_tokens |-> pa,
     completion_audio_tokens |-> ca,
     completion_reasoning_tokens |-> cr,
     completion_accepted_prediction_tokens |-> ap,
     completion_rejected_prediction_tokens |-> rp]

DetailPatterns ==
    {NoDetails,
     Details(0, 0, 0, 0, 0, 0, 0),
     Details(1, Null, Null, Null, Null, Null, Null),
     Details(0, 0, MaxTok, 0, 0, 0, 0),
     Details(Null, 1, Null, Null, 1, Null, Null),
     Details(Null, Null, Null, 1, MaxTok, 1, 0),
     Details(1, Null, MaxTok, Null, Null, Null, Null)}

StoredRow(provider, d) ==
    [execution_id |-> 1, provider |-> provider, model |-> ModelM,
     prompt_tokens |-> MaxTok + 1, completion_tokens |-> MaxTok + 1,
     total_tokens |-> 2 * MaxTok + 2, created_at |-> 0] @@ d

StoredRows == {StoredRow(provider, d) : provider \in {LblOpenAI, LblGemini},
                                        d \in DetailPatterns}

\* price lists without and with audio and cache prices
DetailTables ==
    {<<PricingEntry(ModelM, 100, 200)>>,
     <<[key |-> ModelM, rate |-> TokenRate(100, 200, 1000, 2000, 50, 300)]>>}

\* a process started on the database file of earlier runs
InitStored ==
    /\ enabled = TRUE
    /\ db_path = NoPath
    /\ wrappers = <<>>
    /\ migrated = {DefaultPath}
    /\ db \in {[f \in Paths |-> IF f = DefaultPath THEN rows ELSE <<>>] :
                  rows \in SeqsUpTo(StoredRows, MaxRows)}
    /\ service = NoService
    /\ stream = NoStream
    /\ now = 0
    /\ threads = [t \in Threads |-> IdleThread]
    /\ sessions = [s \in SessionIds |-> ClosedSession]
    /\ last = Last("start", 0, NoId, FALSE, NoExc, NoExc, NoRet, NoRet)

\* reports over stored rows
NextDetails ==
    \/ NewService(DetailTables)
    \/ ReadAllTime

SpecDetails == InitStored /\ [][NextDetails]_vars
\* =============================================== calls step by step
\* The same handlers as above, each split at the points where another thread
\* can run in between: the reads and writes of the process-wide state and of
\* the database.

InitPcs == {"init_path", "init_session", "init_migrate"}

\* the caller holds the wrapper once __init__ has returned
Built(w) == \A t \in Threads : threads[t].pc \in InitPcs => threads[t].w # w

\* rows of logging calls that have not returned yet
InFlight == Cardinality({t \in Threads : threads[t].pc \in {"log_impl", "log_commit"}})

\* base_wrapper.py line 22
InitBegin(t, kind, label, arg, fail) ==
    /\ threads[t].pc = "idle"
    /\ Len(wrappers) < MaxWrappers
    /\ fail = "mkdir" => arg # NoPath
    /\ enabled' = TRUE
    /\ wrappers' = Append(wrappers,
           [kind |-> kind, provider |-> label, Session |-> NoSession, initOk |-> FALSE])
    /\ threads' = [threads EXCEPT ![t].pc = "init_path", ![t].op = "init",
                                  ![t].w = Len(wrappers) + 1, ![t].arg = arg,
                                  ![t].fail = fail]
    /\ UNCHANGED <<db_path, migrated, db, service, stream, now, sessions, last>>

\* lines 41-45: the except branch, then __init__ returns
InitRaised(t) ==
    /\ enabled' = FALSE
    /\ threads' = [threads EXCEPT ![t] = [IdleThread EXCEPT !.done = threads[t].done]]
    /\ last' = Last("init", threads[t].w, NoId, FALSE, NoExc, NoExc, NoRet, NoRet)
    /\ UNCHANGED <<db_path, wrappers, migrated>>

\* lines 26-32: state.db_path = db_path, or None
InitPath(t) ==
    /\ threads[t].pc = "init_path"
    /\ IF threads[t].arg # NoPath /\ threads[t].fail = "mkdir"
       THEN InitRaised(t)
       ELSE /\ db_path' = threads[t].arg
            /\ threads' = [threads EXCEPT ![t].pc = "init_session"]
            /\ UNCHANGED <<enabled, wrappers, migrated, last>>
    /\ UNCHANGED <<db, service, stream, now, sessions>>

\* line 34: self.Session = get_session(), the engine made for the value
\* state.db_path has now
InitSession(t) ==
    /\ threads[t].pc = "init_session"
    /\ IF threads[t].fail = "get_session"
       THEN InitRaised(t)
       ELSE /\ wrappers' = [wrappers EXCEPT ![threads[t].w].Session = get_engine(db_path)]
            /\ threads' = [threads EXCEPT ![t].pc = "init_migrate"]
            /\ UNCHANGED <<enabled, db_path, migrated, last>>
    /\ UNCHANGED <<db, service, stream, now, sessions>>

\* line 40: check_and_run_migrations(db_path), then __init__ returns
InitMigrate(t) ==
    /\ threads[t].pc = "init_migrate"
    /\ IF threads[t].fail = "migrate"
       THEN InitRaised(t)
       ELSE /\ migrated' = migrated \cup {MigrationPath(threads[t].arg)}
            /\ wrappers' = [wrappers EXCEPT ![threads[t].w].initOk = TRUE]
            /\ threads' = [threads EXCEPT ![t] = [IdleThread EXCEPT !.done = threads[t].done]]
            /\ last' = Last("init", threads[t].w, NoId, FALSE, NoExc, NoExc, NoRet, NoRet)
            /\ UNCHANGED <<enabled, db_path>>
    /\ UNCHANGED <<db, service, stream, now, sessions>>

\* uuid.uuid4(): an identifier no row and no call in progress carries
uuid4_InFlight ==
    Min({r.execution_id : r \in AllRows} \cup {threads[t].eid : t \in Threads}
        \cup {0}) - 1

\* session.close(): pending rows are expunged and the connection released
session_close_Never(ss, s) == ss

session_close(ss, s) == [ss EXCEPT ![s] = ClosedSession]

\* _log_usage lines 98-110: the enabled check, the execution id, self.Session()
LogBegin(t, w, stats, eid) ==
    /\ threads[t].pc = "idle"
    /\ w \in 1..Len(wrappers)
    /\ Built(w)
    /\ TotalRows + InFlight < MaxRows
    /\ IF ~enabled
       THEN /\ last' = Last("log", w, eid, FALSE, NoExc, NoExc, stats, NoRet)
            /\ UNCHANGED <<threads, sessions>>
       ELSE IF wrappers[w].Session = NoSession
       THEN /\ last' = Last("log", w, eid, FALSE, NoExc, "AttributeError", stats, NoRet)
            /\ UNCHANGED <<threads, sessions>>
       ELSE /\ threads' = [threads EXCEPT
                   ![t].pc = "log_impl", ![t].op = "log", ![t].w = w,
                   ![t].eid = IF eid = NoId THEN uuid4_InFlight ELSE eid,
                   ![t].given = stats, ![t].fault = FALSE]
            /\ sessions' = [sessions EXCEPT ![SessionOf(w, t)].open = TRUE]
            /\ UNCHANGED last
    /\ UNCHANGED <<enabled, db_path, wrappers, migrated, db, service, stream, now>>

\* _log_usage_impl: session.add(token_usage)
LogImpl(t) ==
    /\ threads[t].pc = "log_impl"
    /\ sessions' = [sessions EXCEPT ![SessionOf(threads[t].w, t)].pending =
                        Append(@, TokenUsageRow(threads[t].w, threads[t].given,
                                                threads[t].eid))]
    /\ threads' = [threads EXCEPT ![t].pc = "log_commit"]
    /\ UNCHANGED <<enabled, db_path, wrappers, migrated, db, service, stream, now, last>>

\* lines 113-120: session.commit() writes the pending rows of the session;
\* when it raises, session.rollback() discards them
LogCommit(t, dbFails) ==
    /\ threads[t].pc = "log_commit"
    /\ LET s == SessionOf(threads[t].w, t)
           path == wrappers[threads[t].w].Session
           ok == \A i \in 1..Len(sessions[s].pending) :
                     CommitOk(sessions[s].pending[i], path, dbFails)
       IN  /\ db' = IF ok THEN [db EXCEPT ![path] = @ \o sessions[s].pending] ELSE db
           /\ sessions' = [sessions EXCEPT ![s].pending = <<>>]
           /\ threads' = [threads EXCEPT ![t].pc = "log_close", ![t].fault = ~ok]
    /\ UNCHANGED <<enabled, db_path, wrappers, migrated, service, stream, now, last>>

\* lines 121-122: finally session.close(), then _log_usage returns
LogClose(t) ==
    /\ threads[t].pc = "log_close"
    /\ sessions' = session_close(sessions, SessionOf(threads[t].w, t))
    /\ threads' = [threads EXCEPT
           ![t] = [IdleThread EXCEPT
                      !.done = IF threads[t].fault THEN threads[t].done
                               ELSE Append(threads[t].done,
                                           TokenUsageRow(threads[t].w, threads[t].given,
                                                         threads[t].eid))]]
    /\ last' = Last("log", threads[t].w, threads[t].eid, threads[t].fault, NoExc, NoExc,
                    threads[t].given, NoRet)
    /\ UNCHANGED <<enabled, db_path, wrappers, migrated, db, service, stream, now>>

\* a read operation up to session = get_session()(): the enabled check comes
\* first and returns the empty report without a session
ReadBegin(t, op, arg) ==
    /\ threads[t].pc = "idle"
    /\ service.made
    /\ IF ~enabled
       THEN /\ last' = Last(op, 0, arg, FALSE, NoExc, NoExc, NoRet, EmptyReport)
            /\ UNCHANGED threads
       ELSE /\ threads' = [threads EXCEPT ![t].pc = "read_query", ![t].op = op,
                                          ![t].eid = arg, ![t].reads = 1]
            /\ UNCHANGED last
    /\ UNCHANGED <<enabled, db_path, wrappers, migrated, db, service, stream, now, sessions>>

\* the query and _calculate_cost inside the try block
ReadQuery(t) ==
    /\ threads[t].pc = "read_query"
    /\ threads[t].op # "last_execution"
    /\ LET res == CASE threads[t].op = "all_time" -> all_time
                    [] threads[t].op = "last_day" -> last_day(<<>>, <<>>)
                    [] threads[t].op = "for_execution" -> for_execution(threads[t].eid)
       IN  /\ service' = [service EXCEPT !.MODEL_COSTS = res.costs]
           /\ threads' = [threads EXCEPT ![t].res = res, ![t].pc = "read_close"]
    /\ UNCHANGED <<enabled, db_path, wrappers, migrated, db, stream, now, sessions, last>>

\* last_execution: the ordered query; with a row it goes on into for_execution
ReadLatest(t) ==
    /\ threads[t].pc = "read_query"
    /\ threads[t].op = "last_execution"
    /\ IF ReadPath \notin migrated
       THEN threads' = [threads EXCEPT ![t].res = NoTable, ![t].pc = "read_close"]
       ELSE IF db[ReadPath] = <<>>
       THEN threads' = [threads EXCEPT
                ![t].res = ReadResult(NoExc, EmptyReport, service.MODEL_COSTS),
                ![t].pc = "read_close"]
       ELSE \E first \in LatestRows :
                threads' = [threads EXCEPT ![t].eid = first.execution_id,
                                           ![t].pc = "read_nested_begin"]
    /\ UNCHANGED <<enabled, db_path, wrappers, migrated, db, service, stream, now,
                   sessions, last>>

\* for_execution called by last_execution: its enabled check and its own
\* session
ReadNestedBegin(t) ==
    /\ threads[t].pc = "read_nested_begin"
    /\ IF ~enabled
       THEN threads' = [threads EXCEPT ![t].res = Disabled, ![t].pc = "read_close"]
       ELSE threads' = [threads EXCEPT ![t].pc = "read_nested", ![t].reads = @ + 1]
    /\ UNCHANGED <<enabled, db_path, wrappers, migrated, db, service, stream, now,
                   sessions, last>>

\* its query and _calculate_cost
ReadNested(t) ==
    /\ threads[t].pc = "read_nested"
    /\ LET res == for_execution(threads[t].eid)
       IN  /\ service' = [service EXCEPT !.MODEL_COSTS = res.costs]
           /\ threads' = [threads EXCEPT ![t].res = res, ![t].pc = "read_nested_close"]
    /\ UNCHANGED <<enabled, db_path, wrappers, migrated, db, stream, now, sessions, last>>

\* its finally session.close()
ReadNestedClose(t) ==
    /\ threads[t].pc = "read_nested_close"
    /\ threads' = [threads EXCEPT ![t].pc = "read_close", ![t].reads = @ - 1]
    /\ UNCHANGED <<enabled, db_path, wrappers, migrated, db, service, stream, now,
                   sessions, last>>

\* finally session.close(), then the operation returns or re-raises
ReadClose(t) ==
    /\ threads[t].pc = "read_close"
    /\ threads' = [threads EXCEPT
           ![t] = [IdleThread EXCEPT !.reads = threads[t].reads - 1,
                                     !.done = threads[t].done]]
    /\ last' = Last(threads[t].op, 0, threads[t].eid, FALSE, NoExc, threads[t].res.exc,
                    NoRet,
                    IF threads[t].res.exc = NoExc THEN threads[t].res.report ELSE NoRet)
    /\ UNCHANGED <<enabled, db_path, wrappers, migrated, db, service, stream, now, sessions>>

\* the steps of a construction, of a logging call and of a read operation
ConstructSteps(T, K, A, F) ==
    \/ \E t \in T, kind \in K, arg \in A, fail \in F :
           InitBegin(t, kind, Label(kind), arg, fail)
    \/ \E t \in T : InitPath(t)
    \/ \E t \in T : InitSession(t)
    \/ \E t \in T : InitMigrate(t)

LogSteps(T, S, E, D) ==
    \/ \E t \in T, w \in 1..MaxWrappers, stats \in S, eid \in E :
           LogBegin(t, w, stats, eid)
    \/ \E t \in T : LogImpl(t)
    \/ \E t \in T, dbFails \in D : LogCommit(t, dbFails)
    \/ \E t \in T : LogClose(t)

ReadSteps(T, O) ==
    \/ \E t \in T, op \in O, arg \in ExecIds \ {NoId} :
           ReadBegin(t, op, IF op = "for_execution" THEN arg ELSE NoId)
    \/ \E t \in T : ReadQuery(t)
    \/ \E t \in T : ReadLatest(t)
    \/ \E t \in T : ReadNestedBegin(t)
    \/ \E t \in T : ReadNested(t)
    \/ \E t \in T : ReadNestedClose(t)
    \/ \E t \in T : ReadClose(t)

\* concurrent logging through wrappers of one file or of two
NextLogging ==
    \/ NewWrapper({"openai"}, PathArgs, {"none"})
    \/ LogSteps(Threads, LoggedStats, {NoId}, {FALSE})

SpecLogging == Init /\ [][NextLogging]_vars

\* concurrent constructions with and without a path
NextConstruct ==
    \/ ConstructSteps(Threads, Kinds, PathArgs, {"none"})

SpecConstruct == Init /\ [][NextConstruct]_vars

\* logging with database errors in one thread and reads in another
NextSessions ==
    \/ NewWrapper({"openai"}, {NoPath}, {"none"})
    \/ NewService(UnitPricing)
    \/ LogSteps({1}, LoggedStats, {1}, BOOLEAN)
    \/ ReadSteps({MaxThreads}, {"all_time", "for_execution", "last_execution"})

SpecSessions == Init /\ [][NextSessions]_vars
\* constructions that fail and succeed, and logging calls step by step
NextFailed ==
    \/ NewWrapper({"openai"}, {NoPath}, {"none", "get_session", "migrate"})
    \/ LogSteps({1}, LoggedStats, {1}, {FALSE})

SpecFailed == Init /\ [][NextFailed]_vars
\* AnthropicSyncStreamInterceptor.__next__: the contract shared by the
\* interceptors of the three providers
AnthropicStreamNext ==
    /\ stream.active
    /\ wrappers[stream.w].kind = "anthropic"
    /\ \E dbFails \in BOOLEAN : InterceptorNext(dbFails)

\* the events of an Anthropic stream
AnthropicEvents ==
    {AnthropicEvent("start", ModelM, 1, 1), AnthropicEvent("delta", <<>>, 0, MaxTok),
     AnthropicEvent("other", <<>>, 0, 0)}

\* Anthropic wrappers and streamed calls
NextAnthropicStream ==
    \/ NewWrapper({"anthropic"}, {NoPath}, {"none"})
    \/ NewStream(AnthropicEvents, {"StopIteration"}, {1})
    \/ AnthropicStreamNext

SpecAnthropicStream == Init /\ [][NextAnthropicStream]_vars
\* Gemini responses and chunks whose usage metadata has or lacks a
\* candidates_token_count
GeminiResponses ==
    {[shape |-> shape, model |-> ModelM, has |-> TRUE, p |-> 1, c |-> c, t |-> MaxTok] :
        shape \in {"typed", "dict"}, c \in {1, Null, Missing}}
    \ {[shape |-> "typed", model |-> ModelM, has |-> TRUE, p |-> 1, c |-> Missing,
         t |-> MaxTok]}

GeminiChunks == {Chunk(ModelM, TRUE, 1, c, MaxTok) : c \in {1, Null}}

\* Gemini wrappers, generate_content and generate_content_stream
NextGemini ==
    \/ NewWrapper({"gemini"}, {NoPath}, {"none"})
    \/ ProviderReturns(GeminiResponses, {1})
    \/ NewStream(GeminiChunks, {"StopIteration"}, {1})
    \/ StreamNext

SpecGemini == Init /\ [][NextGemini]_vars
\* wrappers for the default file and for another file, with all_time
NextPaths ==
    \/ NewWrapper({"openai"}, PathArgs, {"none"})
    \/ NewService(UnitPricing)
    \/ ProviderReturns(UsageResponses, {1})
    \/ ReadAllTime

SpecPaths == Init /\ [][NextPaths]_vars

\* a service made before or after a construction that failed, with all_time
NextReenabled ==
    \/ NewWrapper({"openai"}, {NoPath}, {"none", "migrate"})
    \/ NewService(UnitPricing)
    \/ ProviderReturns(UsageResponses, {1})
    \/ ReadAllTime

SpecReenabled == Init /\ [][NextReenabled]_vars
\* ================================================================ claims
ReadOps == {"last_hour", "last_day", "last_week", "last_month", "between",
            "for_execution", "last_execution", "all_time"}

IsPrefix(a, b) == Len(a) <= Len(b) /\ a = SubSeq(b, 1, Len(a))

\* C1: the chunks handed to the caller are at every point a prefix of the
\* underlying stream's sequence, each returned as it was pulled, and every
\* chunk pulled from the underlying stream has been handed to the caller.
C1_ChunksArePrefix ==
    stream.active =>
        /\ IsPrefix(stream.received, stream.items)
        /\ Len(stream.received) = stream.pos
        /\ stream.pos <= stream.nextCalls
        /\ (last.op = "next" /\ last.given # NoRet => last.ret = last.given)

C1_Witness ==
    /\ stream.active
    /\ Len(stream.received) >= 2
    /\ stream.received[1] # stream.received[2]

\* C2: for any sequence of next() calls on one interceptor, calls after
\* exhaustion included, the callback runs at most once and at most one row is
\* logged for the stream.
C2_AtMostOneRow == stream.callbacks <= 1 /\ stream.rows <= 1

\* C3: an error of the underlying stream reaches the caller unchanged, and no
\* row is ever logged for a stream that raised, whatever the caller does next.
C3_NoRowAfterError ==
    /\ (last.op = "next" /\ last.perr # NoExc => last.exc = last.perr)
    /\ (stream.errored => stream.rows = 0)

\* C4: the callback runs only once the underlying stream has signalled
\* exhaustion and a chunk was yielded, it receives exactly the chunks yielded
\* to the caller, the exhaustion signal then reaches the caller, and a stream
\* that yielded nothing triggers no callback and no row.
C4_CallbackAtExhaustion ==
    /\ (stream.callbacks > 0 =>
            stream.finished /\ stream.cbArg # <<>> /\ stream.cbArg = stream.received)
    /\ (stream.received = <<>> => stream.callbacks = 0 /\ stream.rows = 0)
    /\ (last.op = "next" /\ last.perr = NoExc /\ last.given = NoRet =>
            last.exc = "StopIteration")

\* C5: while the enabled flag is false a logging call, from a non-streaming
\* call or from a stream callback, leaves every table unchanged, and every
\* read operation returns the empty zero report without raising.
C5_DisabledNoOp ==
    [][~enabled =>
          /\ (last'.op \in {"create", "next"} => db' = db)
          /\ (last'.op \in ReadOps => last'.exc = NoExc /\ last'.ret = EmptyReport)]_vars

C5_Witness ==
    /\ ~enabled
    /\ last.op = "create"
    /\ last.perr = NoExc
    /\ last.given.has
    /\ ~last.fault
    /\ wrappers[last.w].Session \in migrated

\* C6: construction never raises to the caller, and after any sequence of
\* constructions the enabled flag is true exactly when the most recent
\* construction completed every step.
C6_EnabledIffLastInitOk ==
    /\ (last.op = "init" => last.exc = NoExc)
    /\ (wrappers # <<>> => (enabled <=> wrappers[Len(wrappers)].initOk))

C6_Witness ==
    /\ Len(wrappers) = 2
    /\ ~wrappers[1].initOk
    /\ wrappers[2].initOk
    /\ enabled

\* C7: in every reachable process state a call whose provider call succeeded
\* returns the provider's response; no exception of the logging path reaches
\* the caller.
C7_LoggingNeverRaises ==
    last.op = "create" /\ last.perr = NoExc =>
        last.exc = NoExc /\ last.ret = last.given

\* C8: when the provider call raises, the caller gets that same error and the
\* tables hold exactly the rows they held before the call.
C8_ProviderErrorPropagates ==
    [][last'.op = "create" /\ last'.perr # NoExc =>
          last'.exc = last'.perr /\ last'.ret = NoRet /\ db' = db]_vars

C8_Witness ==
    /\ last.op = "create"
    /\ last.perr \in ProviderErrors
    /\ enabled
    /\ wrappers[last.w].initOk
    /\ TotalRows > 0

\* a response without usage information, or with a token count that is None
\* or not a number
NoExtractableUsage(r) ==
    \/ r.shape = "other"
    \/ ~r.has
    \/ r.p \in {Null, Invalid}
    \/ r.c \in {Null, Invalid}
    \/ r.t \in {Null, Invalid}

\* C9: a non-streaming response without usage information, or whose usage
\* fields make extraction fail, is returned unmodified and adds no row.
C9_NoUsageNoRow ==
    [][last'.op = "create" /\ last'.perr = NoExc /\ NoExtractableUsage(last'.given) =>
          last'.exc = NoExc /\ last'.ret = last'.given /\ db' = db]_vars

C9_Witness ==
    /\ last.op = "create"
    /\ last.perr = NoExc
    /\ last.given.shape = "dict"
    /\ last.given.has
    /\ last.given.p = Invalid
    /\ last.ret = last.given
    /\ ~last.fault
    /\ enabled
    /\ wrappers[last.w].initOk

\* the rows of every file that carry execution id e
RowsOf(e) ==
    SelectSeq(db[DefaultPath] \o db[CustomPath], LAMBDA u : u.execution_id = e)

\* a step that logs one observation under an explicit execution id through a
\* wrapper whose construction succeeded, tracking being enabled
LogsObservation ==
    /\ last'.op = "create"
    /\ last'.perr = NoExc
    /\ last'.given.has
    /\ last'.arg # NoId
    /\ enabled
    /\ wrappers[last'.w].initOk

\* a for_execution(e) step that directly follows such a logging step, the
\* pricing table being loaded
ReadsItBack ==
    /\ last.op = "create"
    /\ last.perr = NoExc
    /\ last.given.has
    /\ last.arg # NoId
    /\ enabled
    /\ wrappers[last.w].initOk
    /\ service.made
    /\ service.MODEL_COSTS # <<>>
    /\ last'.op = "for_execution"
    /\ last'.arg = last.arg

\* one provider entry with the wrapper's label holding one model entry with
\* the observation's counts
ReportsObservation(report, w, r) ==
    /\ Len(report.providers) = 1
    /\ report.providers[1].provider = wrappers[w].provider
    /\ Len(report.providers[1].models) = 1
    /\ report.providers[1].models[1].prompt_tokens = r.p
    /\ report.providers[1].models[1].completion_tokens = r.c
    /\ report.providers[1].models[1].total_tokens = r.t

GrownFiles == {f \in Paths : Len(db'[f]) = Len(db[f]) + 1}

\* C11: every stored row has an execution id; a row logged with an execution
\* id carries it, a row logged without one carries an identifier that no
\* stored row carried before, and for_execution with a generated identifier
\* reports the tokens of at most that one row.
C11_ExecutionIds ==
    [][/\ \A u \in AllRows' : u.execution_id # NoId
       /\ \A f \in GrownFiles :
              LET added == db'[f][Len(db'[f])]
              IN  IF last'.arg # NoId THEN added.execution_id = last'.arg
                  ELSE \A u \in AllRows : u.execution_id # added.execution_id
       /\ (last'.op = "for_execution" /\ last'.arg < 0 /\ last'.exc = NoExc =>
              /\ Len(RowsOf(last'.arg)) = 1
              /\ last'.ret.total_tokens \in {0, RowsOf(last'.arg)[1].total_tokens})]_vars

C11_Witness ==
    /\ Len(db[DefaultPath]) = 2
    /\ db[DefaultPath][1].execution_id < 0
    /\ db[DefaultPath][2].execution_id < 0
    /\ db[DefaultPath][1].total_tokens # db[DefaultPath][2].total_tokens
    /\ last.op = "for_execution"
    /\ last.arg = db[DefaultPath][2].execution_id
    /\ last.exc = NoExc
    /\ last.ret.total_tokens = db[DefaultPath][2].total_tokens


\* C12: the token_usage table of every file is append-only: each step leaves
\* the rows it held in place and unchanged, and a read operation of the query
\* service, the construction of a wrapper or of the service, and the creation
\* of a stream change no row and no row count.
C12_AppendOnly ==
    [][/\ \A f \in Paths : IsPrefix(db[f], db'[f])
       /\ (last'.op \in ReadOps \cup {"init", "service_init", "create_stream"} =>
              db' = db)]_vars

C12_Witness ==
    /\ last.op \in ReadOps
    /\ last.exc = NoExc
    /\ TotalRows >= 2
    /\ last.ret.total_tokens > 0


\* C13: a time-window query reports on exactly the stored rows with
\* start <= created_at <= end, both bounds inclusive, that carry the provider
\* and the model asked for when a filter is given; last_hour (day, week, month)
\* takes the window from one hour (day, week, month) before the clock reading
\* to the clock reading; a window whose end lies before its start gives a
\* report with no tokens and no providers, and no error.
WindowOps == {"last_hour", "last_day", "last_week", "last_month", "between"}

WindowLength(op) ==
    CASE op = "last_hour" -> HourTicks
      [] op = "last_day" -> DayTicks
      [] op = "last_week" -> WeekTicks
      [] op = "last_month" -> MonthTicks

WindowStart(op, q) == IF op = "between" THEN q.start ELSE now - WindowLength(op)
WindowEnd(op, q) == IF op = "between" THEN q.end ELSE now

InWindow(rows, start, end, q) ==
    SelectSeq(rows, LAMBDA u : /\ u.created_at >= start
                               /\ ~(u.created_at > end)
                               /\ (q.provider = <<>> \/ u.provider = q.provider)
                               /\ (q.model = <<>> \/ u.model = q.model))

C13_TimeWindow ==
    [][last'.op \in WindowOps /\ enabled /\ ReadPath \in migrated =>
          LET q == last'.given
              start == WindowStart(last'.op, q)
              end == WindowEnd(last'.op, q)
              rows == InWindow(db[ReadPath], start, end, q)
          IN  /\ last'.exc = NoExc
              /\ last'.ret = calculate_cost(service.MODEL_COSTS, rows).report
              /\ (service.MODEL_COSTS # <<>> =>
                     last'.ret.total_tokens =
                         SumSeq([i \in 1..Len(rows) |-> rows[i].total_tokens]))
              /\ (end < start =>
                     last'.ret.total_tokens = 0 /\ last'.ret.providers = <<>>)]_vars

\* last_hour one hour after a row was stored and a moment before another: the
\* row exactly one hour old is reported, the older one is not
C13_Witness ==
    /\ last.op = "last_hour"
    /\ last.exc = NoExc
    /\ Len(db[DefaultPath]) = 2
    /\ db[DefaultPath][1].created_at < now - HourTicks
    /\ db[DefaultPath][2].created_at = now - HourTicks
    /\ last.given.provider = <<>>
    /\ last.given.model = <<>>
    /\ last.ret.total_tokens = db[DefaultPath][2].total_tokens


\* C14: between(D, D) with one date-only string reports every stored row whose
\* created_at lies within calendar day D, from midnight up to the next
\* midnight, whatever its fraction of a second, and no row outside that day.
RowsOfDay(rows, d) ==
    SelectSeq(rows, LAMBDA u : DayStart(d) <= u.created_at /\ u.created_at < DayStart(d + 1))

C14_WholeDay ==
    [][/\ last'.op = "between"
       /\ last'.given.start_date = last'.given.end_date
       /\ enabled /\ ReadPath \in migrated /\ service.MODEL_COSTS # <<>>
       => LET rows == RowsOfDay(db[ReadPath], last'.given.start_date)
          IN  /\ last'.exc = NoExc
              /\ last'.ret.total_tokens =
                     SumSeq([i \in 1..Len(rows) |-> rows[i].total_tokens])]_vars


\* C15: when a time-window query is given a model filter m, every model entry
\* of the report has model equal to m, whatever the pricing table holds.
C15_ModelEntriesCarryFilter ==
    [][last'.op \in WindowOps /\ last'.exc = NoExc /\ last'.given.model # <<>> =>
          \A i \in 1..Len(last'.ret.providers) :
              \A j \in 1..Len(last'.ret.providers[i].models) :
                  last'.ret.providers[i].models[j].model = last'.given.model]_vars


\* C16: in a report that calculate_cost computes, total_tokens, prompt_tokens
\* and completion_tokens of the report are the sums over its provider entries,
\* those of each provider entry are the sums over its model entries, and they
\* are the sums of the stored fields over the input rows: there is one provider
\* entry per provider of the input rows, holding the sums over exactly that
\* provider's rows, so that every row is counted once.
TokenFields == {"total_tokens", "prompt_tokens", "completion_tokens"}

SumField(s, f) == SumSeq([i \in 1..Len(s) |-> s[i][f]])

\* the rows a read operation hands to calculate_cost
InputRows(l) ==
    CASE l.op = "all_time" -> db[ReadPath]
      [] l.op = "for_execution" ->
             SelectSeq(db[ReadPath], LAMBDA u : u.execution_id = l.arg)
      [] l.op \in WindowOps ->
             InWindow(db[ReadPath], WindowStart(l.op, l.given), WindowEnd(l.op, l.given),
                      l.given)

C16_TotalsAreSums ==
    [][/\ last'.op \in WindowOps \cup {"all_time", "for_execution"}
       /\ last'.exc = NoExc
       /\ enabled /\ service.MODEL_COSTS # <<>>
       => LET r == last'.ret
              rows == InputRows(last')
          IN  \A f \in TokenFields :
                  /\ r[f] = SumField(r.providers, f)
                  /\ r[f] = SumField(rows, f)
                  /\ \A i \in 1..Len(r.providers) :
                         /\ r.providers[i][f] = SumField(r.providers[i].models, f)
                         /\ r.providers[i][f] =
                                SumField(SelectSeq(rows,
                                    LAMBDA u : u.provider = r.providers[i].provider), f)
                         /\ \A j \in 1..Len(r.providers) :
                                r.providers[j].provider = r.providers[i].provider => j = i
                  /\ \A k \in 1..Len(rows) :
                         \E i \in 1..Len(r.providers) :
                             r.providers[i].provider = rows[k].provider]_vars

\* a report in which one model entry holds two rows with different counts
C16_Witness ==
    /\ last.op = "all_time"
    /\ last.exc = NoExc
    /\ Len(db[DefaultPath]) >= 2
    /\ Len(last.ret.providers) >= 1
    /\ \E i \in 1..Len(last.ret.providers) :
           \E j \in 1..Len(last.ret.providers[i].models) :
               /\ db[DefaultPath][1].prompt_tokens # db[DefaultPath][2].prompt_tokens
               /\ last.ret.providers[i].models[j].prompt_tokens =
                      db[DefaultPath][1].prompt_tokens + db[DefaultPath][2].prompt_tokens


\* C17: calculate_cost prices a row under its model if that is a key of the
\* pricing table; else under "provider/model" if that is a key; else under the
\* first key that contains the model; else at the fallback rate, which it
\* registers in the table under the bare model, so that every later row of
\* that model, in the same call or a later one, finds it by exact match: the
\* table gains at most one entry per model.
KeysContaining(costs, m) == {i \in 1..Len(costs) : IsSubstring(m, costs[i].key)}

FirstOf(S) == CHOOSE i \in S : \A j \in S : i <= j

Unpriced(costs, u) ==
    /\ u.model \notin Keys(costs)
    /\ (u.provider \o Slash \o u.model) \notin Keys(costs)
    /\ KeysContaining(costs, u.model) = {}

ExpectedKey(costs, u) ==
    IF u.model \in Keys(costs) THEN u.model
    ELSE IF (u.provider \o Slash \o u.model) \in Keys(costs)
         THEN u.provider \o Slash \o u.model
    ELSE IF KeysContaining(costs, u.model) # {}
         THEN costs[FirstOf(KeysContaining(costs, u.model))].key
    ELSE u.model

C17_KeyPriority ==
    [][/\ last'.op \in {"all_time", "for_execution"}
       /\ last'.exc = NoExc
       /\ enabled /\ service.MODEL_COSTS # <<>>
       => LET before == service.MODEL_COSTS
              after == service'.MODEL_COSTS
              rows == InputRows(last')
              added == SubSeq(after, Len(before) + 1, Len(after))
          IN  /\ IsPrefix(before, after)
              /\ \A i \in 1..Len(added) :
                     /\ added[i].rate = GPT4O_PRICING
                     /\ \E k \in 1..Len(rows) : added[i].key = rows[k].model
                     /\ \A j \in 1..Len(added) : added[j].key = added[i].key => j = i
              /\ \A k \in 1..Len(rows) : Unpriced(before, rows[k]) =>
                     \E i \in 1..Len(added) : added[i].key = rows[k].model
              /\ (Len(rows) = 1 =>
                     /\ Len(last'.ret.providers) = 1
                     /\ Len(last'.ret.providers[1].models) = 1
                     /\ last'.ret.providers[1].models[1].model =
                            ExpectedKey(before, rows[1])
                     /\ (~Unpriced(before, rows[1]) => after = before))]_vars

\* two rows of a model the table has no key for: one entry was registered at
\* the fallback rate and one model entry named by the bare model holds both
C17_Witness ==
    /\ last.op = "all_time"
    /\ last.exc = NoExc
    /\ Len(db[DefaultPath]) = 2
    /\ db[DefaultPath][1].model = db[DefaultPath][2].model
    /\ db[DefaultPath][1].provider = db[DefaultPath][2].provider
    /\ Len(service.MODEL_COSTS) = 2
    /\ service.MODEL_COSTS[2] = [key |-> db[DefaultPath][1].model, rate |-> GPT4O_PRICING]
    /\ Len(last.ret.providers) = 1
    /\ Len(last.ret.providers[1].models) = 1
    /\ last.ret.providers[1].models[1].model = db[DefaultPath][1].model


\* C18: for a fully drained OpenAI stream, with tracking enabled and no database
\* error: if a chunk carries usage, exactly one row is logged for the stream,
\* with the prompt, completion and total counts summed over the chunks that
\* carry usage and with the model of the first chunk; if no chunk carries
\* usage, no row is logged.
UsageChunks(chunks) == SelectSeq(chunks, LAMBDA ch : ch.has)

\* a next() call on an OpenAI interceptor whose provider stream is exhausted
DrainedOpenAI ==
    /\ last'.op = "next"
    /\ stream'.finished /\ ~stream'.errored
    /\ wrappers[stream.w].kind = "openai"
    /\ enabled /\ ~last'.fault

C18_OpenAIStreamRow ==
    [][DrainedOpenAI =>
          LET used == UsageChunks(stream.chunks)
          IN  IF used # <<>> /\ ~stream.finished
              THEN /\ Cardinality(GrownFiles) = 1
                   /\ \A f \in Paths \ GrownFiles : db'[f] = db[f]
                   /\ \A f \in GrownFiles :
                          LET added == db'[f][Len(db'[f])]
                          IN  /\ added.prompt_tokens = SumSeq([i \in 1..Len(used) |-> used[i].p])
                              /\ added.completion_tokens =
                                     SumSeq([i \in 1..Len(used) |-> used[i].c])
                              /\ added.total_tokens = SumSeq([i \in 1..Len(used) |-> used[i].t])
                              /\ added.model = stream.chunks[1].model
              ELSE db' = db]_vars


\* the aggregation of C18 at the first exhaustion, through a wrapper whose
\* construction succeeded
OpenAIRowAtFirstExhaustion ==
    [][DrainedOpenAI /\ ~stream.finished /\ wrappers[stream.w].initOk =>
          LET used == UsageChunks(stream.chunks)
          IN  IF used # <<>>
              THEN /\ Cardinality(GrownFiles) = 1
                   /\ \A f \in GrownFiles :
                          LET added == db'[f][Len(db'[f])]
                          IN  /\ added.prompt_tokens = SumSeq([i \in 1..Len(used) |-> used[i].p])
                              /\ added.completion_tokens =
                                     SumSeq([i \in 1..Len(used) |-> used[i].c])
                              /\ added.total_tokens = SumSeq([i \in 1..Len(used) |-> used[i].t])
                              /\ added.model = stream.chunks[1].model
              ELSE db' = db]_vars

\* C19: a row logged for a drained Gemini stream carries the prompt,
\* completion and total counts of the final chunk's usage metadata alone (a
\* missing candidates count is stored as 0), never a sum over the chunks, and
\* the model_version of the first chunk.
C19_GeminiLastChunk ==
    [][last'.op = "next" /\ wrappers[stream.w].kind = "gemini" /\ db' # db =>
          LET final == stream.chunks[Len(stream.chunks)]
          IN  /\ stream'.finished
              /\ Cardinality(GrownFiles) = 1
              /\ \A f \in Paths \ GrownFiles : db'[f] = db[f]
              /\ \A f \in GrownFiles :
                     LET added == db'[f][Len(db'[f])]
                     IN  /\ SubSeq(db'[f], 1, Len(db[f])) = db[f]
                         /\ final.has
                         /\ added.prompt_tokens = final.p
                         /\ added.completion_tokens = (IF final.c = Null THEN 0 ELSE final.c)
                         /\ added.total_tokens = final.t
                         /\ added.model = stream.chunks[1].model]_vars

\* a Gemini stream of two chunks that both carry usage and name different
\* models, drained, with its row stored
C19_Witness ==
    /\ stream.active
    /\ wrappers[stream.w].kind = "gemini"
    /\ last.op = "next"
    /\ stream.finished
    /\ stream.rows = 1
    /\ Len(stream.chunks) = 2
    /\ stream.chunks[1].has /\ stream.chunks[2].has
    /\ stream.chunks[1].model # stream.chunks[2].model
    /\ \E f \in Paths :
           /\ Len(db[f]) = 1
           /\ db[f][1].total_tokens = stream.chunks[2].t
           /\ db[f][1].model = stream.chunks[1].model


\* C20: a row logged for a non-streaming Anthropic Message with input_tokens i,
\* cache_creation_input_tokens c and output_tokens o has prompt_tokens = i + c,
\* completion_tokens = o, total_tokens = (i + c) + o, which is prompt_tokens +
\* completion_tokens, and the cached-creation column c.
C20_AnthropicAdditive ==
    [][/\ last'.op = "create"
       /\ wrappers[last'.w].kind = "anthropic"
       /\ last'.given.shape = "typed"
       /\ last'.given.cc >= 0
       /\ db' # db
       => \A f \in GrownFiles :
              LET added == db'[f][Len(db'[f])]
                  r == last'.given
              IN  /\ added.prompt_tokens = r.i + r.cc
                  /\ added.completion_tokens = r.o
                  /\ added.total_tokens = (r.i + r.cc) + r.o
                  /\ added.total_tokens = added.prompt_tokens + added.completion_tokens
                  /\ added.prompt_cached_creation_tokens = r.cc]_vars


\* C21: in a report that calculate_cost computes, a model entry whose rows have
\* every cached, audio, reasoning and prediction column null or zero has no
\* prompt details and no completion details; a model entry with a row whose
\* prompt-side (completion-side) column is not zero has prompt (completion)
\* details, and each field of them is the sum of that column over the rows of
\* the entry, a null counted as 0.
Counted(v) == IF v = Null THEN 0 ELSE v

ColumnSum(rows, col) == SumSeq([i \in 1..Len(rows) |-> Counted(rows[i][col])])

NullOrZero(rows, cols) ==
    \A i \in 1..Len(rows) : \A col \in cols : rows[i][col] \in {Null, 0}

\* the input rows that a model entry of a provider entry is built from
RowsOfEntry(costs, rows, provider, model) ==
    SelectSeq(rows, LAMBDA u : u.provider = provider /\ ExpectedKey(costs, u) = model)

C21_DetailsAreSums ==
    [][/\ last'.op = "all_time"
       /\ last'.exc = NoExc
       /\ enabled /\ service.MODEL_COSTS # <<>>
       => \A i \in 1..Len(last'.ret.providers) :
              \A j \in 1..Len(last'.ret.providers[i].models) :
                  LET e == last'.ret.providers[i].models[j]
                      rows == RowsOfEntry(service.MODEL_COSTS, InputRows(last'),
                                          last'.ret.providers[i].provider, e.model)
                      pd == e.prompt_tokens_details
                      cd == e.completion_tokens_details
                  IN  /\ rows # <<>>
                      /\ NullOrZero(rows, PromptColumns \cup CompletionColumns) =>
                             ~pd.present /\ ~cd.present
                      /\ ~NullOrZero(rows, PromptColumns) =>
                             /\ pd.present
                             /\ pd.cached_input_tokens =
                                    ColumnSum(rows, "prompt_cached_input_tokens")
                             /\ pd.cached_creation_tokens =
                                    ColumnSum(rows, "prompt_cached_creation_tokens")
                             /\ pd.audio_tokens = ColumnSum(rows, "prompt_audio_tokens")
                      /\ ~NullOrZero(rows, CompletionColumns) =>
                             /\ cd.present
                             /\ cd.audio_tokens =
                                    ColumnSum(rows, "completion_audio_tokens")
                             /\ cd.reasoning_tokens =
                                    ColumnSum(rows, "completion_reasoning_tokens")
                             /\ cd.accepted_prediction_tokens =
                                    ColumnSum(rows, "completion_accepted_prediction_tokens")
                             /\ cd.rejected_prediction_tokens =
                                    ColumnSum(rows, "completion_rejected_prediction_tokens")
      ]_vars

\* a model entry over two rows, one with a null and one with a recorded
\* reasoning count, and no prompt-side count: completion details only
C21_Witness ==
    /\ last.op = "all_time"
    /\ last.exc = NoExc
    /\ Len(last.ret.providers) = 1
    /\ Len(db[DefaultPath]) = 2
    /\ db[DefaultPath][1].completion_reasoning_tokens = 0
    /\ db[DefaultPath][2].completion_reasoning_tokens = MaxTok
    /\ db[DefaultPath][2].prompt_cached_input_tokens = Null
    /\ ~last.ret.providers[1].models[1].prompt_tokens_details.present
    /\ last.ret.providers[1].models[1].completion_tokens_details.present
    /\ last.ret.providers[1].models[1].completion_tokens_details.reasoning_tokens = MaxTok
    /\ last.ret.providers[1].models[1].completion_tokens_details.audio_tokens = 1


\* C25: the cost of a row is computed on prompt_tokens minus
\* prompt_cached_input_tokens when cached-input tokens were recorded, and on
\* prompt_tokens minus prompt_audio_tokens only when no cached-input tokens
\* but audio tokens were recorded; seen in the total_cost of the model entry
\* of a report over one row.
RateOf(costs, key) == (CHOOSE e \in Range(costs) : e.key = key).rate

CachedFirstTextTokens(u) ==
    IF u.prompt_cached_input_tokens \notin {Null, 0}
    THEN u.prompt_tokens - u.prompt_cached_input_tokens
    ELSE IF u.prompt_audio_tokens \notin {Null, 0}
         THEN u.prompt_tokens - u.prompt_audio_tokens
    ELSE u.prompt_tokens

C25_CachedBeforeAudio ==
    [][/\ last'.op = "all_time"
       /\ last'.exc = NoExc
       /\ enabled /\ service.MODEL_COSTS # <<>>
       /\ Len(InputRows(last')) = 1
       => LET u == InputRows(last')[1]
              rates == RateOf(service.MODEL_COSTS, ExpectedKey(service.MODEL_COSTS, u))
          IN  last'.ret.providers[1].models[1].total_cost =
                  Round6(CachedFirstTextTokens(u) * rates.prompt
                         + CompletionTextTokens(u) * rates.completion
                         + Surcharge(u.prompt_audio_tokens, rates.prompt_audio)
                         + Surcharge(u.completion_audio_tokens, rates.completion_audio)
                         + Surcharge(u.prompt_cached_input_tokens, rates.prompt_cached_input)
                         + Surcharge(u.prompt_cached_creation_tokens,
                                     rates.prompt_cached_creation))]_vars


\* C22: when the logging calls of several threads through enabled wrappers
\* have all returned, the tables hold exactly the rows of those calls, one row
\* per call, for every interleaving of their steps; and a call adds its row
\* to the session of its own thread only.
Quiescent == \A t \in Threads : threads[t].pc = "idle"

\* the rows of the logging calls that have returned
DoneRows == UNION {Range(threads[t].done) : t \in Threads}

Copies(s, x) == Cardinality({i \in 1..Len(s) : s[i] = x})

OpenSessions(t) ==
    threads[t].reads + Cardinality({w \in 1..MaxWrappers : sessions[<<w, t>>].open})

C28_SessionsClosed ==
    \A t \in Threads :
        /\ threads[t].pc = "idle" => OpenSessions(t) = 0
        /\ threads[t].pc \in {"log_impl", "log_commit", "log_close", "read_query",
                               "read_nested_begin", "read_close"} => OpenSessions(t) = 1
        /\ threads[t].pc \in {"read_nested", "read_nested_close"} => OpenSessions(t) = 2

\* a logging call has returned after a rollback while another thread is
\* inside last_execution with two sessions open
C28_Witness ==
    /\ last.op = "log"
    /\ last.fault
    /\ threads[1].pc = "idle"
    /\ OpenSessions(1) = 0
    /\ threads[MaxThreads].pc = "read_nested"


\* C23: when a construction returns, the wrapper's session factory is bound
\* to the path the constructor was given, or to the default path if it was
\* given none, also when constructions run in several threads at once.
C23_BoundToOwnPath ==
    [][\A t \in Threads :
           threads[t].pc = "init_migrate" /\ threads'[t].pc = "idle"
           /\ threads[t].fail = "none"
           => wrappers'[threads[t].w].Session = MigrationPath(threads[t].arg)]_vars


\* C24: a call through a wrapper whose construction failed opens no database
\* session and logs no row, in every later state, also after another
\* construction has set the enabled flag again.
C24_FailedStaysPassThrough ==
    [][/\ \A t \in Threads :
              threads[t].pc = "idle" /\ threads'[t].pc = "log_impl"
              => wrappers[threads'[t].w].initOk
       /\ db' # db =>
              \E t \in Threads :
                  threads[t].pc = "log_commit" /\ wrappers[threads[t].w].initOk]_vars


\* C26: an Anthropic stream logs a row only if one of the events it delivered
\* is a start event or a delta event; a drained stream without such an event
\* logs no row.
C26_NoUsageNoRow ==
    [][db' # db /\ last'.op = "next"
       => \E i \in 1..Len(stream.chunks) : stream.chunks[i].type \in {"start", "delta"}]_vars


\* C27: a Gemini response or drained stream whose usage metadata has no
\* candidates_token_count logs one row with completion_tokens = 0, on the
\* non-streaming path and on the streaming path.
LogsZeroCompletion ==
    \E f \in GrownFiles : db'[f][Len(db'[f])].completion_tokens = 0

C27_GeminiCompletionDefault ==
    [][/\ (/\ last'.op = "create"
           /\ wrappers[last'.w].kind = "gemini"
           /\ last'.given.has
           /\ last'.given.c \in {Null, Missing}
           /\ ~last'.fault
           => LogsZeroCompletion)
       /\ (/\ last'.op = "next"
           /\ wrappers[stream.w].kind = "gemini"
           /\ stream'.callbacks = stream.callbacks + 1
           /\ stream.chunks[Len(stream.chunks)].c = Null
           /\ ~last'.fault
           => LogsZeroCompletion)]_vars


\* C29: after successful constructions, also with different database paths,
\* all_time reports the rows logged through every wrapper: its total_tokens
\* is the sum over the rows of all the wrappers' files.
C29_OneFile ==
    [][last'.op = "all_time" /\ last'.exc = NoExc /\ enabled /\ service.MODEL_COSTS # <<>>
       => last'.ret.total_tokens =
              SumField(db[DefaultPath], "total_tokens")
              + SumField(db[CustomPath], "total_tokens")]_vars

\* C30: whenever tracking is enabled at the time of the query and the table
\* holds rows, all_time reports the sum of the rows' total_tokens, whatever
\* happened before, also when the service was made while tracking was
\* disabled.
C30_TotalsWheneverEnabled ==
    [][last'.op = "all_time" /\ last'.exc = NoExc /\ enabled /\ db[ReadPath] # <<>>
       => last'.ret.total_tokens = SumField(db[ReadPath], "total_tokens")]_vars

====
